---- MODULE Spec2Model ----
(***************************************************************************)
(* The LLM provider orchestration layer of homeward: the LLMManager        *)
(* (registry of providers, active-provider pointer, retry / rate-limit /   *)
(* fallback engine of sendMessage, pass-through streaming).                *)
(*                                                                         *)
(* Providers are seen through the ILLMProvider interface: what a call of   *)
(* sendMessage, isAvailable or sendMessageStream answers is the            *)
(* environment's choice.  A request runs from one suspension point (an     *)
(* await) to the next in each step; the steps of one request are           *)
(* req.pc = "primary" (awaiting operation()), "delay" (awaiting delay()),  *)
(* "isAvailable" and "fallback" (awaiting the fallback provider), "stream" *)
(* (delegating to the stream), "done" (settled).  One caller at a time   *)
(* is served: registry operations are issued between requests.             *)
(*                                                                         *)
(* The second half is one provider object (BaseLLMProvider and its three   *)
(* subclasses): its usage statistics, its status cache and the parser of   *)
(* its streamed responses.  Its calls overlap: each is a frame in calls    *)
(* that runs from one await to the next in a step.                         *)
(***************************************************************************)
EXTENDS Integers, Sequences, FiniteSets, TLC

VARIABLES
    config,          \* LLMManager.config, fixed by the constructor
    providers,       \* LLMManager.providers: Map in insertion order, <<[key, name]>>
    activeProvider,  \* LLMManager.activeProvider: a name or Null
    req,             \* the frame of the request in flight
    trace,           \* the provider calls and sleeps of the request, in order
    result,          \* what the request settled with
    call,            \* the Manager method called last, and what it returned
    statusesCall,    \* the frame of the getProviderStatuses call made last
    backend,         \* the concrete class of the provider object under study
    providerConfig,  \* BaseLLMProvider._config
    usageStats,      \* BaseLLMProvider._usageStats
    lastStatus,      \* BaseLLMProvider._lastStatus: a status or Null
    now,             \* Date.now(), in minutes
    calls,           \* the provider's calls: the frame of each, by call number
    history          \* the updateUsageStats calls and backend probes made, in order

managerVars ==
    <<config, providers, activeProvider, req, trace, result, call, statusesCall>>

providerVars ==
    <<backend, providerConfig, usageStats, lastStatus, now, calls, history>>

vars == <<managerVars, providerVars>>

(***************************** bounds ***************************************)
MaxRetryAttempts == 2    \* configured retryAttempts range over 0..MaxRetryAttempts
ConfiguredDelay == 500   \* the configured retryDelay (ms) besides 0
RetryAfterHint == 2      \* the retry-after hint (s) of a hinted rate-limit error
MaxCalls == 3            \* calls made on the provider under study
MaxStatusCalls == 2      \* getStatus calls made on the provider under study
MaxFailedCalls == 2      \* calls the backend refuses, made on the provider under study
MaxMessages == 2         \* messages of a request whose cost is estimated
MaxPayloadMessages == 3  \* messages of a request whose payload is built
MaxInstalled == 2        \* models the local backend lists as installed
MaxNow == 6              \* minutes the clock runs while statuses are cached
MaxLines == 3            \* lines of a streamed response body
MaxRead == 2             \* characters of a short read of the response body
MaxSplitLines == 2       \* lines of a body read in pieces of every size
EvalCount == 7           \* the eval_count an Ollama completion line reports
OutputPrice == 2         \* cost units per completion token of a paid model
MaxChunks == 2           \* chunks a provider's stream yields at most

(************************ program constants *********************************)
DefaultRetryAttempts == 3
FiveMinutes == 5
DefaultRetryDelay == 1000
MsPerSecond == 1000

Null == "null"
Names == {"alpha", "beta", "gamma"}

(***************************** errors ***************************************)
\* class LLMError and its subclasses: the class, the code, the provider field
\* and, for LLMRateLimitError, retryAfter (0 stands for undefined).
LLMError(code, provider) ==
    [class |-> "LLMError", code |-> code, provider |-> provider, retryAfter |-> 0]

LLMRateLimitError(provider, retryAfter) ==
    [class |-> "LLMRateLimitError", code |-> "RATE_LIMIT",
     provider |-> provider, retryAfter |-> retryAfter]

LLMAuthenticationError(provider) ==
    [class |-> "LLMAuthenticationError", code |-> "AUTH_ERROR",
     provider |-> provider, retryAfter |-> 0]

LLMNetworkError(provider) ==
    [class |-> "LLMNetworkError", code |-> "NETWORK_ERROR",
     provider |-> provider, retryAfter |-> 0]

NoError == [class |-> Null, code |-> Null, provider |-> Null, retryAfter |-> 0]

\* error instanceof LLMError
InstanceOfLLMError(e) ==
    e.class \in {"LLMError", "LLMRateLimitError", "LLMAuthenticationError",
                 "LLMNetworkError"}

\* The error a provider's catch block receives, as handleError reads it:
\* error.message, error.code (Null: undefined), error.response?.status
\* (0: no response property) and error.response.headers['retry-after']
\* (Null: no such header).
JsError(message, code, status, retryAfter) ==
    [message |-> message, code |-> code, status |-> status, retryAfter |-> retryAfter]

\* new Error(message), a TypeError, a SyntaxError: no code, no response
PlainError(message) == JsError(message, Null, 0, Null)

\* the value of a leading decimal digit, or -1
DigitValue(c) ==
    CASE c = "0" -> 0 [] c = "1" -> 1 [] c = "2" -> 2 [] c = "3" -> 3
      [] c = "4" -> 4 [] c = "5" -> 5 [] c = "6" -> 6 [] c = "7" -> 7
      [] c = "8" -> 8 [] c = "9" -> 9 [] OTHER -> -1

RECURSIVE ParseDigits(_, _)
ParseDigits(text, value) ==
    IF text = "" \/ DigitValue(SubSeq(text, 1, 1)) < 0
    THEN value
    ELSE ParseDigits(SubSeq(text, 2, Len(text)),
                     10 * value + DigitValue(SubSeq(text, 1, 1)))

\* parseInt(text) of an unsigned header value; NaN, which the Manager's
\* "error.retryAfter ?" treats like undefined, is 0
parseInt(text) == ParseDigits(text, 0)

\* BaseLLMProvider.handleError(error, context) of the provider named nm: the
\* error it throws
handleError(error, nm) ==
    IF error.status = 401 THEN LLMAuthenticationError(nm)
    ELSE IF error.status = 429
    THEN LLMRateLimitError(nm, IF error.retryAfter # Null /\ error.retryAfter # ""
                               THEN parseInt(error.retryAfter) ELSE 0)
    ELSE IF error.code \in {"ENOTFOUND", "ECONNREFUSED"} THEN LLMNetworkError(nm)
    ELSE LLMError(IF error.code # Null THEN error.code ELSE "UNKNOWN_ERROR", nm)

\* The errors a provider named nm can answer a sendMessage with.
ProviderErrors(nm) ==
    {LLMRateLimitError(nm, r) : r \in {0, RetryAfterHint}}
        \cup {LLMAuthenticationError(nm), LLMNetworkError(nm)}

\* The errors drawn for a fallback provider's sendMessage: the Manager treats
\* them all alike there.
FallbackErrors(nm) == {LLMAuthenticationError(nm)}

(************************ the providers Map *********************************)
MapKeys(m) == {m[i].key : i \in DOMAIN m}

MapHas(m, k) == k \in MapKeys(m)

MapIndex(m, k) == CHOOSE i \in DOMAIN m : m[i].key = k

\* providers.get(k): the provider stored under k, given by the name it reports
MapGet(m, k) == IF MapHas(m, k) THEN m[MapIndex(m, k)].name ELSE Null

\* Map.set: a new key goes last, an existing key keeps its place
MapSet(m, k, nm) ==
    IF MapHas(m, k)
    THEN [m EXCEPT ![MapIndex(m, k)] = [key |-> k, name |-> nm]]
    ELSE Append(m, [key |-> k, name |-> nm])

MapDelete(m, k) == SelectSeq(m, LAMBDA e : e.key # k)

(************************ the configuration *********************************)
\* fallbackProviders is [defined, names]: defined = FALSE is an absent list.
FallbackLists ==
    {[defined |-> FALSE, names |-> <<>>],
     [defined |-> TRUE, names |-> <<"alpha", "beta", "gamma">>]}

Configs ==
    [defaultProvider : {Null},
     fallbackProviders : FallbackLists,
     retryAttempts : 0..MaxRetryAttempts,
     retryDelay : {0, ConfiguredDelay},
     enableFallback : BOOLEAN]

\* (this.config.retryAttempts || 3)
RetryAttempts ==
    IF config.retryAttempts = 0 THEN DefaultRetryAttempts ELSE config.retryAttempts

\* (this.config.retryDelay || 1000)
RetryDelay ==
    IF config.retryDelay = 0 THEN DefaultRetryDelay ELSE config.retryDelay

(************************ registry operations *******************************)
IdleReq ==
    [pc |-> "idle", kind |-> Null, providerName |-> Null, primary |-> Null,
     primaryProviderName |-> Null, attempt |-> 0, lastError |-> NoError,
     fallbackIndex |-> 0, fallbackName |-> Null, chunks |-> 0]

NoResult == [status |-> "none", from |-> Null, error |-> NoError, chunks |-> <<>>]

\* A call of a Manager method as the caller sees it: the method, its argument,
\* what it returned ("true", "false", "undefined" for void and for a promise)
\* and the active provider when the call was made.
Call(op, arg, ret) == [op |-> op, arg |-> arg, ret |-> ret, active |-> activeProvider]

NoCall == [op |-> Null, arg |-> Null, ret |-> "undefined", active |-> Null]

\* as ActiveAfterRegister, the provider registered last always becoming active
ActiveAfterRegister_Latest(active, nm) == nm

\* the active pointer after registerProvider of a provider named nm
ActiveAfterRegister(active, nm) ==
    IF active = Null \/ nm = config.defaultProvider THEN nm ELSE active

registerProvider(nm) ==
    /\ req.pc = "idle"
    /\ providers' = MapSet(providers, nm, nm)
    /\ activeProvider' = ActiveAfterRegister(activeProvider, nm)
    /\ call' = Call("registerProvider", nm, "undefined")
    /\ UNCHANGED <<config, req, trace, result, statusesCall, providerVars>>

\* as ActiveAfterUnregister, without the switch to a remaining provider
ActiveAfterUnregister_Keep(active, k, remaining) == active

\* as ActiveAfterUnregister, switching to the first remaining provider whichever
\* provider was removed
ActiveAfterUnregister_First(active, k, remaining) ==
    IF Len(remaining) > 0 THEN remaining[1].key ELSE Null

\* the active pointer after unregisterProvider(k), remaining = the Map after delete
ActiveAfterUnregister(active, k, remaining) ==
    IF active = k
    THEN IF Len(remaining) > 0 THEN remaining[1].key ELSE Null
    ELSE active

unregisterProvider(k) ==
    /\ req.pc = "idle"
    /\ providers' = MapDelete(providers, k)
    /\ activeProvider' = ActiveAfterUnregister(activeProvider, k, MapDelete(providers, k))
    /\ call' = Call("unregisterProvider", k, "undefined")
    /\ UNCHANGED <<config, req, trace, result, statusesCall, providerVars>>

\* as ActiveAfterSetActive, without the has() test
ActiveAfterSetActive_Unchecked(active, k) == k

\* the active pointer after setActiveProvider(k)
ActiveAfterSetActive(active, k) ==
    IF MapHas(providers, k) THEN k ELSE active

\* what setActiveProvider(k) returns
SetActiveReturns(k) ==
    IF MapHas(providers, k) THEN "true" ELSE "false"

setActiveProvider(k) ==
    /\ req.pc = "idle"
    /\ activeProvider' = ActiveAfterSetActive(activeProvider, k)
    /\ call' = Call("setActiveProvider", k, SetActiveReturns(k))
    /\ UNCHANGED <<config, providers, req, trace, result, statusesCall, providerVars>>

\* BaseLLMProvider.updateConfig: { ...this._config, ...config }; the partial
\* configuration is given by its name field (Null: no name field in it).
ConfigNameAfterUpdate(old, partialName) ==
    IF partialName = Null THEN old ELSE partialName

updateProviderConfig(k, partialName) ==
    /\ req.pc = "idle"
    /\ providers' =
         IF MapHas(providers, k)
         THEN MapSet(providers, k, ConfigNameAfterUpdate(MapGet(providers, k), partialName))
         ELSE providers
    /\ call' = Call("updateProviderConfig", k, "undefined")
    /\ UNCHANGED <<config, activeProvider, req, trace, result, statusesCall, providerVars>>

(************************ the request engine *********************************)
\* One entry of the trace: a provider call (op = "sendMessage", "isAvailable",
\* "sendMessageStream"; arg = the attempt count of a primary sendMessage), a
\* chunk the stream yielded (op = "chunk", arg = its number) or a sleep
\* (op = "delay", arg = ms).  target is the registry key of the provider
\* called, role says in which phase, outcome what the call answered
\* ("pending" while it is awaited).
Entry(op, target, role, arg, outcome) ==
    [op |-> op, target |-> target, role |-> role, arg |-> arg, outcome |-> outcome]

Pending == [class |-> "pending", code |-> Null, provider |-> Null, retryAfter |-> 0]
Ok == [class |-> "ok", code |-> Null, provider |-> Null, retryAfter |-> 0]
Yes == [class |-> "true", code |-> Null, provider |-> Null, retryAfter |-> 0]
No == [class |-> "false", code |-> Null, provider |-> Null, retryAfter |-> 0]

\* The request's state [req, trace, result], passed through the synchronous
\* segments below.
Frame == [req |-> req, trace |-> trace, result |-> result]

Becomes(S) ==
    /\ req' = S.req
    /\ trace' = S.trace
    /\ result' = S.result

Answered(S, outcome) == [S EXCEPT !.trace[Len(S.trace)].outcome = outcome]

Issue(S, op, target, role, arg, pc) ==
    [S EXCEPT !.trace = Append(S.trace, Entry(op, target, role, arg, Pending)),
              !.req.pc = pc]

Return(S, from) ==
    [S EXCEPT !.req.pc = "done",
              !.result = [status |-> "ok", from |-> from, error |-> NoError,
                          chunks |-> S.result.chunks]]

Throw(S, e) ==
    [S EXCEPT !.req.pc = "done",
              !.result = [status |-> "error", from |-> Null, error |-> e,
                          chunks |-> S.result.chunks]]

\* getActiveProvider(): the key of the active provider, or Null
getActiveProvider ==
    IF activeProvider # Null
    THEN (IF MapHas(providers, activeProvider) THEN activeProvider ELSE Null)
    ELSE Null

\* as getProviderForRequest, an unknown name falling back to the active provider
getProviderForRequest_OrActive(providerName) ==
    IF providerName # Null /\ MapHas(providers, providerName)
    THEN providerName
    ELSE getActiveProvider

\* getProviderForRequest(providerName): the key of the provider, or Null
getProviderForRequest(providerName) ==
    IF providerName # Null
    THEN (IF MapHas(providers, providerName) THEN providerName ELSE Null)
    ELSE getActiveProvider

\* await this.delay(ms)
delay(S, ms) ==
    [S EXCEPT !.trace = Append(S.trace, Entry("delay", Null, "manager", ms, Ok)),
              !.req.pc = "delay"]

\* throw lastError || new LLMError('All providers failed', 'ALL_FAILED', 'manager')
AllFailed(S) ==
    Throw(S, IF S.req.lastError # NoError
             THEN S.req.lastError
             ELSE LLMError("ALL_FAILED", "manager"))

\* as FallbackLoop, without the skip of the primary provider's name
RECURSIVE FallbackLoop_NoSkip(_, _)
FallbackLoop_NoSkip(S, i) ==
    LET names == config.fallbackProviders.names IN
    IF i > Len(names) THEN AllFailed(S)
    ELSE IF ~MapHas(providers, names[i]) THEN FallbackLoop_NoSkip(S, i + 1)
    ELSE Issue([S EXCEPT !.req.fallbackIndex = i, !.req.fallbackName = names[i]],
               "isAvailable", names[i], "fallback", 0, "isAvailable")

\* the fallback loop from entry i of the list up to its next await
RECURSIVE FallbackLoop(_, _)
FallbackLoop(S, i) ==
    LET names == config.fallbackProviders.names IN
    IF i > Len(names) THEN AllFailed(S)
    ELSE IF names[i] = S.req.primaryProviderName THEN FallbackLoop(S, i + 1)
    ELSE IF ~MapHas(providers, names[i]) THEN FallbackLoop(S, i + 1)
    ELSE Issue([S EXCEPT !.req.fallbackIndex = i, !.req.fallbackName = names[i]],
               "isAvailable", names[i], "fallback", 0, "isAvailable")

\* as FallbackPhase, without the enableFallback switch
FallbackPhase_Always(S) ==
    IF config.fallbackProviders.defined
    THEN FallbackLoop(S, 1)
    ELSE AllFailed(S)

\* if (this.config.enableFallback && this.config.fallbackProviders) ...
FallbackPhase(S) ==
    IF config.enableFallback /\ config.fallbackProviders.defined
    THEN FallbackLoop(S, 1)
    ELSE AllFailed(S)

\* the head of the retry loop with the attempt count att
LoopHead(S, att) ==
    LET S1 == [S EXCEPT !.req.attempt = att] IN
    IF att <= RetryAttempts
    THEN Issue(S1, "sendMessage", S.req.primary, "primary", att, "primary")
    ELSE FallbackPhase(S1)

\* as OnPrimaryError, retrying authentication errors like any other
OnPrimaryError_RetryAuth(S, e) ==
    LET S1 == [S EXCEPT !.req.lastError = e] IN
    IF e.class = "LLMRateLimitError" /\ e.retryAfter # 0
    THEN delay(S1, e.retryAfter * MsPerSecond)
    ELSE IF S1.req.attempt < RetryAttempts
    THEN delay(S1, RetryDelay * S1.req.attempt)
    ELSE LoopHead(S1, S1.req.attempt + 1)

\* as OnPrimaryError, with a constant backoff
OnPrimaryError_FlatDelay(S, e) ==
    LET S1 == [S EXCEPT !.req.lastError = e] IN
    IF e.class = "LLMRateLimitError" /\ e.retryAfter # 0
    THEN delay(S1, e.retryAfter * MsPerSecond)
    ELSE IF InstanceOfLLMError(e) /\ e.code = "AUTH_ERROR"
    THEN FallbackPhase(S1)
    ELSE IF S1.req.attempt < RetryAttempts
    THEN delay(S1, RetryDelay)
    ELSE LoopHead(S1, S1.req.attempt + 1)

\* as OnPrimaryError, a hinted rate limit giving its attempt slot back
OnPrimaryError_SlotKept(S, e) ==
    LET S1 == [S EXCEPT !.req.lastError = e] IN
    IF e.class = "LLMRateLimitError" /\ e.retryAfter # 0
    THEN delay([S1 EXCEPT !.req.attempt = @ - 1], e.retryAfter * MsPerSecond)
    ELSE IF InstanceOfLLMError(e) /\ e.code = "AUTH_ERROR"
    THEN FallbackPhase(S1)
    ELSE IF S1.req.attempt < RetryAttempts
    THEN delay(S1, RetryDelay * S1.req.attempt)
    ELSE LoopHead(S1, S1.req.attempt + 1)

\* the catch block of the retry loop, up to its next await
OnPrimaryError(S, e) ==
    LET S1 == [S EXCEPT !.req.lastError = e] IN
    IF e.class = "LLMRateLimitError" /\ e.retryAfter # 0
    THEN delay(S1, e.retryAfter * MsPerSecond)
    ELSE IF InstanceOfLLMError(e) /\ e.code = "AUTH_ERROR"
    THEN FallbackPhase(S1)
    ELSE IF S1.req.attempt < RetryAttempts
    THEN delay(S1, RetryDelay * S1.req.attempt)
    ELSE LoopHead(S1, S1.req.attempt + 1)

\* Manager.sendMessage(request, providerName) up to its first await
sendMessage(providerName) ==
    /\ req.pc = "idle"
    /\ LET key == getProviderForRequest(providerName)
           S == [Frame EXCEPT !.req.kind = "sendMessage",
                              !.req.providerName = providerName,
                              !.req.primary = key,
                              !.req.primaryProviderName = MapGet(providers, key)]
       IN Becomes(IF key = Null
                  THEN Throw(S, LLMError("NO_PROVIDER", "manager"))
                  ELSE LoopHead(S, 1))
    /\ call' = Call("sendMessage", providerName, "undefined")
    /\ UNCHANGED <<config, providers, activeProvider, statusesCall, providerVars>>

\* operation() resolves: return await operation()
primaryReturns ==
    /\ req.pc = "primary"
    /\ Becomes(Return(Answered(Frame, Ok), req.primary))
    /\ UNCHANGED <<config, providers, activeProvider, call, statusesCall, providerVars>>

\* operation() rejects with e
primaryThrows(e) ==
    /\ req.pc = "primary"
    /\ Becomes(OnPrimaryError(Answered(Frame, e), e))
    /\ UNCHANGED <<config, providers, activeProvider, call, statusesCall, providerVars>>

\* the timer of delay() fires: the loop goes on with attempt++
delayElapsed ==
    /\ req.pc = "delay"
    /\ Becomes(LoopHead(Frame, req.attempt + 1))
    /\ UNCHANGED <<config, providers, activeProvider, call, statusesCall, providerVars>>

\* fallbackProvider.isAvailable() resolves with b
isAvailableReturns(b) ==
    /\ req.pc = "isAvailable"
    /\ Becomes(IF b
               THEN Issue(Answered(Frame, Yes), "sendMessage", req.fallbackName,
                          "fallback", 0, "fallback")
               ELSE FallbackLoop(Answered(Frame, No), req.fallbackIndex + 1))
    /\ UNCHANGED <<config, providers, activeProvider, call, statusesCall, providerVars>>

\* as fallbackReturns, the fallback that served the request becoming active
fallbackReturns_Promote ==
    /\ req.pc = "fallback"
    /\ Becomes(Return(Answered(Frame, Ok), req.fallbackName))
    /\ activeProvider' = req.fallbackName
    /\ UNCHANGED <<config, providers, call, statusesCall, providerVars>>

\* fallbackProvider.sendMessage(request) resolves
fallbackReturns ==
    /\ req.pc = "fallback"
    /\ Becomes(Return(Answered(Frame, Ok), req.fallbackName))
    /\ UNCHANGED <<config, providers, activeProvider, call, statusesCall, providerVars>>

\* fallbackProvider.sendMessage(request) rejects: warn, next fallback
fallbackThrows(e) ==
    /\ req.pc = "fallback"
    /\ Becomes(FallbackLoop(Answered(Frame, e), req.fallbackIndex + 1))
    /\ UNCHANGED <<config, providers, activeProvider, call, statusesCall, providerVars>>

(************************ streaming ******************************************)
\* as YieldStar, handing the chunks over in the wrong order
YieldStar_Reversed(out, chunk) == <<chunk>> \o out

\* yield* hands the provider's chunk to the consumer
YieldStar(out, chunk) == Append(out, chunk)

\* Manager.sendMessageStream(request, providerName) up to the delegation
sendMessageStream(providerName) ==
    /\ req.pc = "idle"
    /\ LET key == getProviderForRequest(providerName)
           S == [Frame EXCEPT !.req.kind = "sendMessageStream",
                              !.req.providerName = providerName,
                              !.req.primary = key,
                              !.req.primaryProviderName = MapGet(providers, key)]
       IN Becomes(IF key = Null
                  THEN Throw(S, LLMError("NO_PROVIDER", "manager"))
                  ELSE Issue(S, "sendMessageStream", key, "primary", 0, "stream"))
    /\ call' = Call("sendMessageStream", providerName, "undefined")
    /\ UNCHANGED <<config, providers, activeProvider, statusesCall, providerVars>>

\* the provider's stream yields its next chunk
streamYields ==
    /\ req.pc = "stream"
    /\ req.chunks < MaxChunks
    /\ LET n == req.chunks + 1 IN
       Becomes([Frame EXCEPT
                  !.req.chunks = n,
                  !.trace = Append(trace, Entry("chunk", req.primary, "primary", n, Ok)),
                  !.result.chunks = YieldStar(result.chunks, n)])
    /\ UNCHANGED <<config, providers, activeProvider, call, statusesCall, providerVars>>

\* the provider's stream ends
streamReturns ==
    /\ req.pc = "stream"
    /\ Becomes(Return(Frame, req.primary))
    /\ UNCHANGED <<config, providers, activeProvider, call, statusesCall, providerVars>>

\* the provider's stream raises e: it reaches the consumer as it is
streamThrows(e) ==
    /\ req.pc = "stream"
    /\ Becomes(Throw(Frame, e))
    /\ UNCHANGED <<config, providers, activeProvider, call, statusesCall, providerVars>>

\* the caller has taken the outcome: the frame is gone
settled ==
    /\ req.pc = "done"
    /\ req' = IdleReq
    /\ trace' = <<>>
    /\ result' = NoResult
    /\ UNCHANGED <<config, providers, activeProvider, call, statusesCall, providerVars>>

(************************ a provider: usage statistics ***********************)
\* The provider object under study is one BaseLLMProvider subclass instance
\* (backend says which).  Several of its calls can be in flight: each runs
\* from one await to the next in a step.  Time is counted in minutes.
Backends == {"openai", "anthropic", "ollama"}

\* A number that is not whole (errorRate, averageResponseTime) is carried in
\* binary fixed point: the integer q stands for q / Scale, and a division
\* rounds to the nearest such number.  That is 20 binary digits after the
\* point where a double keeps 52: a rounding error of the program shows here
\* at far smaller counts.
Scale == 1048576

\* scaled / d for a fixed-point number and a count, rounded to nearest
Divide(scaled, d) == (2 * scaled + d) \div (2 * d)

\* n / d for two counts
Quotient(n, d) == Divide(n * Scale, d)

\* Math.round(q * k) for a fixed-point number q and a count k: the integer
\* nearest to the product, a half rounding up
MathRound(q, k) == (2 * q * k + Scale) \div (2 * Scale)

\* the _usageStats of the constructor and of resetUsageStats
FreshStats ==
    [totalRequests |-> 0, totalTokens |-> 0, totalCost |-> 0,
     averageResponseTime |-> 0, errorRate |-> 0]

\* as updateUsageStats, the error count rebuilt against the new request count
updateUsageStats_NewCount(stats, tokens, cost, responseTime, isError) ==
    LET totalRequests == stats.totalRequests + 1
        totalErrors == MathRound(stats.errorRate, totalRequests)
    IN [totalRequests |-> totalRequests,
        totalTokens |-> stats.totalTokens + tokens,
        totalCost |-> stats.totalCost + cost,
        averageResponseTime |->
            Divide(stats.averageResponseTime * stats.totalRequests
                     + responseTime * Scale,
                   totalRequests),
        errorRate |-> Quotient(totalErrors + (IF isError THEN 1 ELSE 0), totalRequests)]

\* as updateUsageStats, the token total replaced instead of accumulated
updateUsageStats_LastTokens(stats, tokens, cost, responseTime, isError) ==
    LET totalRequests == stats.totalRequests + 1
        totalErrors == MathRound(stats.errorRate, stats.totalRequests)
    IN [totalRequests |-> totalRequests,
        totalTokens |-> tokens,
        totalCost |-> stats.totalCost + cost,
        averageResponseTime |->
            Divide(stats.averageResponseTime * stats.totalRequests
                     + responseTime * Scale,
                   totalRequests),
        errorRate |-> Quotient(totalErrors + (IF isError THEN 1 ELSE 0), totalRequests)]

\* BaseLLMProvider.updateUsageStats(tokens, cost, responseTime, isError):
\* the new _usageStats
updateUsageStats(stats, tokens, cost, responseTime, isError) ==
    LET totalRequests == stats.totalRequests + 1
        totalErrors == MathRound(stats.errorRate, stats.totalRequests)
    IN [totalRequests |-> totalRequests,
        totalTokens |-> stats.totalTokens + tokens,
        totalCost |-> stats.totalCost + cost,
        averageResponseTime |->
            Divide(stats.averageResponseTime * stats.totalRequests
                     + responseTime * Scale,
                   totalRequests),
        errorRate |-> Quotient(totalErrors + (IF isError THEN 1 ELSE 0), totalRequests)]

\* The provider's state [usageStats, calls, history], passed through the
\* synchronous segments of its methods.
ProviderFrame == [usageStats |-> usageStats, calls |-> calls, history |-> history]

ProviderBecomes(P) ==
    /\ usageStats' = P.usageStats
    /\ calls' = P.calls
    /\ history' = P.history

\* One entry of the history: an updateUsageStats call made by call number i
\* with these arguments (op = "updateUsageStats"), a backend probe
\* (op = "checkAvailability") or a resetUsageStats (op = "resetUsageStats").
Event(op, i, tokens, cost, isError) ==
    [op |-> op, call |-> i, tokens |-> tokens, cost |-> cost, isError |-> isError]

\* this.updateUsageStats(tokens, cost, Date.now() - startTime, isError) in call i
Update(P, i, tokens, cost, isError) ==
    [P EXCEPT
       !.usageStats = updateUsageStats(P.usageStats, tokens, cost,
                                       now - P.calls[i].startTime, isError),
       !.history = Append(P.history, Event("updateUsageStats", i, tokens, cost, isError))]

\* the call settles: outcome "returned" or "thrown"
Settle(P, i, outcome) ==
    [P EXCEPT !.calls[i].pc = "done", !.calls[i].outcome = outcome]

\* as CatchBlock, the failed call left out of the statistics
CatchBlock_Silent(P, i) == Settle(P, i, "thrown")

\* catch (error) { updateUsageStats(0, 0, responseTime, true); handleError(error) }
CatchBlock(P, i) ==
    Settle([Update(P, i, 0, 0, TRUE) EXCEPT
              !.calls[i].error = handleError(P.calls[i].caught, providerConfig.name)],
           i, "thrown")

\* calculateCost(usage, model) of the paid backends; the local backend passes 0
CallCost(b, priced) == IF b = "ollama" THEN 0 ELSE priced

\* the success path of sendMessage: the response holds usage.totalTokens = tokens,
\* priced at priced
SuccessPath(P, i, tokens, priced) ==
    Settle(Update([P EXCEPT !.calls[i].tokens = tokens,
                            !.calls[i].cost = CallCost(backend, priced)],
                  i, tokens, CallCost(backend, priced), FALSE),
           i, "returned")

\* _lastStatus = null
NoStatus ==
    [set |-> FALSE, available |-> FALSE, error |-> "", lastChecked |-> 0,
     responseTime |-> -1]

\* the frame of a provider call that has reached its first await, fetch(...);
\* response is the body the backend will send, body what is left of it to read,
\* config the this._config its request (or its probe) is built from, ret the
\* value returned when it is not a response or a status, httpStatus and
\* retryAfter the status and retry-after header of the response (0, Null:
\* none yet), caught the error the catch block receives and error the one the
\* call throws
CallFrame(op, body) ==
    [op |-> op, pc |-> "fetch", startTime |-> now, outcome |-> "pending",
     config |-> providerConfig, ret |-> "undefined",
     httpStatus |-> 0, retryAfter |-> Null,
     caught |-> PlainError(""), error |-> NoError,
     tokens |-> 0, cost |-> 0,
     response |-> body, body |-> body, buffer |-> "", lines |-> <<>>,
     pendingStop |-> FALSE,
     totalContent |-> "", out |-> <<>>, status |-> NoStatus]

\* provider.sendMessage(request) up to await fetch(...)
Provider_sendMessage ==
    /\ Len(calls) < MaxCalls
    /\ calls' = Append(calls, CallFrame("sendMessage", ""))
    /\ UNCHANGED <<managerVars, backend, providerConfig, usageStats, lastStatus, now, history>>

\* fetch(...) rejects (network failure, timeout) with a TypeError or a
\* DOMException, which have no response property: the catch block runs
fetchRejects(i) ==
    /\ calls[i].pc = "fetch"
    /\ ProviderBecomes(
         CatchBlock([ProviderFrame EXCEPT !.calls[i].caught = PlainError("fetch failed")], i))
    /\ UNCHANGED <<managerVars, backend, providerConfig, lastStatus, now>>

\* fetch(...) resolves with a non-OK response:
\* await response.json().catch(() => ({})) is the next await
fetchResolvesNotOk(i, response) ==
    /\ calls[i].pc = "fetch"
    /\ calls' = [calls EXCEPT ![i].pc = "errorData",
                              ![i].httpStatus = response.status,
                              ![i].retryAfter = response.retryAfter]
    /\ UNCHANGED <<managerVars, backend, providerConfig, usageStats, lastStatus, now, history>>

\* errorData arrives: throw new Error(errorData.error?.message ||
\* `HTTP ${response.status}`), caught by the catch block
errorDataSettles(i) ==
    /\ calls[i].pc = "errorData"
    /\ ProviderBecomes(
         CatchBlock([ProviderFrame EXCEPT
                       !.calls[i].caught =
                           PlainError("HTTP " \o ToString(calls[i].httpStatus))], i))
    /\ UNCHANGED <<managerVars, backend, providerConfig, lastStatus, now>>

\* fetch(...) of sendMessage resolves with an OK response:
\* await response.json() is the next await
fetchResolvesOk(i) ==
    /\ calls[i].pc = "fetch"
    /\ calls[i].op = "sendMessage"
    /\ calls' = [calls EXCEPT ![i].pc = "json"]
    /\ UNCHANGED <<managerVars, backend, providerConfig, usageStats, lastStatus, now, history>>

\* response.json() resolves with the completion: the success path to return
jsonResolves(i, tokens, priced) ==
    /\ calls[i].pc = "json"
    /\ ProviderBecomes(SuccessPath(ProviderFrame, i, tokens, priced))
    /\ UNCHANGED <<managerVars, backend, providerConfig, lastStatus, now>>

\* response.json() rejects, or the data has no choices: the catch block runs
jsonRejects(i) ==
    /\ calls[i].pc = "json"
    /\ ProviderBecomes(CatchBlock(ProviderFrame, i))
    /\ UNCHANGED <<managerVars, backend, providerConfig, lastStatus, now>>

\* BaseLLMProvider.resetUsageStats()
resetUsageStats ==
    /\ usageStats # FreshStats
    /\ usageStats' = FreshStats
    /\ history' = Append(history, Event("resetUsageStats", 0, 0, 0, FALSE))
    /\ UNCHANGED <<managerVars, backend, providerConfig, lastStatus, now, calls>>

\* a minute passes
tick(limit) ==
    /\ now < limit
    /\ now' = now + 1
    /\ UNCHANGED <<managerVars, backend, providerConfig, usageStats, lastStatus, calls, history>>

(************************ a provider: status cache ***************************)
\* the LLMProviderStatus getStatus builds when its probe settles at minute t:
\* { available: true, lastChecked, responseTime } or
\* { available: false, error, lastChecked }
Status(ok, t, startTime) ==
    [set |-> TRUE, available |-> ok,
     error |-> IF ok THEN "" ELSE "probe failed",
     lastChecked |-> t,
     responseTime |-> IF ok THEN t - startTime ELSE -1]

\* as isStatusFresh, no status ever fresh
isStatusFresh_Never(status, t) == FALSE

\* this._lastStatus && this.isStatusFresh(), at minute t
isStatusFresh(status, t) ==
    status.set /\ status.lastChecked > t - FiveMinutes

\* as ProbeSettled, the rejection of the probe passed on to the caller
ProbeSettled_Rethrow(frame, ok, t) ==
    IF ok
    THEN [frame EXCEPT !.pc = "done", !.outcome = "returned",
                       !.status = Status(TRUE, t, frame.startTime)]
    ELSE [frame EXCEPT !.pc = "done", !.outcome = "thrown"]

\* try { await this.checkAvailability(); this._lastStatus = { available: true, ... } }
\* catch (error) { this._lastStatus = { available: false, error, ... } }
\* return this._lastStatus: the frame of the call when its probe has settled
\* at minute t
ProbeSettled(frame, ok, t) ==
    [frame EXCEPT !.pc = "done", !.outcome = "returned",
                  !.status = Status(ok, t, frame.startTime)]

\* isAvailable(): try { const status = await this.getStatus(); return status.available }
\* catch { return false }, applied to the frame when its getStatus has settled
isAvailableBody(frame) ==
    IF frame.op = "isAvailable" /\ frame.pc = "done"
    THEN [frame EXCEPT
            !.outcome = "returned",
            !.ret = IF frame.outcome = "returned" /\ frame.status.available
                    THEN "true" ELSE "false"]
    ELSE frame

\* getStatus(), called directly (op = "getStatus") or by isAvailable(): the
\* cached status, or up to await this.checkAvailability()
StatusCall(op) ==
    /\ Len(calls) < MaxStatusCalls
    /\ LET i == Len(calls) + 1
           P == [ProviderFrame EXCEPT !.calls = Append(@, CallFrame(op, ""))]
           Q == Settle([P EXCEPT !.calls[i].status = lastStatus], i, "returned")
       IN ProviderBecomes(
            IF isStatusFresh(lastStatus, now)
            THEN [Q EXCEPT !.calls[i] = isAvailableBody(@)]
            ELSE [P EXCEPT !.calls[i].pc = "probe",
                           !.history = Append(@, Event("checkAvailability", i, 0, 0, FALSE))])
    /\ UNCHANGED <<managerVars, backend, providerConfig, lastStatus, now>>

\* provider.getStatus()
getStatus == StatusCall("getStatus")

\* provider.isAvailable()
Provider_isAvailable == StatusCall("isAvailable")

\* checkAvailability() settles (ok: resolved, ~ok: rejected on an error, a
\* timeout or a non-OK response): the status is cached and returned; the
\* history notes how the probe ended
checkAvailabilitySettles(i, ok) ==
    /\ calls[i].pc = "probe"
    /\ lastStatus' = Status(ok, now, calls[i].startTime)
    /\ calls' = [calls EXCEPT ![i] = isAvailableBody(ProbeSettled(@, ok, now))]
    /\ history' = Append(history, Event("probeSettled", i, 0, 0, ~ok))
    /\ UNCHANGED <<managerVars, backend, providerConfig, usageStats, now>>

\* { ...this._config, ...config }: a field the partial configuration does not
\* have keeps its value
Merged(old, partial) ==
    [f \in DOMAIN old |-> IF f \in DOMAIN partial THEN partial[f] ELSE old[f]]

\* BaseLLMProvider.updateConfig(config)
updateConfig(partial) ==
    /\ providerConfig' = Merged(providerConfig, partial)
    /\ lastStatus' = NoStatus
    /\ UNCHANGED <<managerVars, backend, usageStats, now, calls, history>>

\* costPer1kTokens: { input, output }, in units of 0.00001 dollar
Priced(input, output) == [defined |-> TRUE, input |-> input, output |-> output]

\* a model descriptor without costPer1kTokens
Unpriced == [defined |-> FALSE, input |-> 0, output |-> 0]

\* an LLMModel, shortened to the fields the providers read
LLMModel(id, name, contextWindow, maxTokens, costPer1kTokens) ==
    [id |-> id, name |-> name, contextWindow |-> contextWindow,
     maxTokens |-> maxTokens, costPer1kTokens |-> costPer1kTokens]

\* DEFAULT_MODELS of each provider class, the first two of each
DEFAULT_MODELS(b) ==
    CASE b = "openai" ->
           <<LLMModel("gpt-4-turbo-preview", "GPT-4 Turbo", 128000, 4096, Priced(1000, 3000)),
             LLMModel("gpt-4", "GPT-4", 8192, 4096, Priced(3000, 6000))>>
      [] b = "anthropic" ->
           <<LLMModel("claude-3-opus-20240229", "Claude 3 Opus", 200000, 4096, Priced(1500, 7500)),
             LLMModel("claude-3-sonnet-20240229", "Claude 3 Sonnet", 200000, 4096, Priced(300, 1500))>>
      [] b = "ollama" ->
           <<LLMModel("llama2", "Llama 2", 4096, 2048, Unpriced),
             LLMModel("codellama", "Code Llama", 16384, 4096, Unpriced)>>

\* this._config.models.find(m => m.id === modelId): its index, 0 for undefined
getModelById(models, modelId) ==
    LET found == {i \in DOMAIN models : models[i].id = modelId}
    IN IF found = {} THEN 0 ELSE CHOOSE i \in found : \A j \in found : i <= j

\* this._config = { ...config } of the constructor
ConstructedConfig ==
    [name |-> backend, baseUrl |-> "https://a", models |-> DEFAULT_MODELS(backend)]

\* the provider as constructed, no call made
ProviderConstructed ==
    /\ providerConfig = ConstructedConfig
    /\ usageStats = FreshStats
    /\ lastStatus = NoStatus
    /\ now = 0
    /\ calls = <<>>
    /\ history = <<>>

(************************ Ollama: the installed models ***********************)
\* as updateAvailableModels, every installed model given the default descriptor
updateAvailableModels_Defaults(models, installedModels) ==
    [k \in DOMAIN installedModels |->
       LLMModel(installedModels[k], installedModels[k], 4096, 2048, Unpriced)]

\* OllamaProvider.updateAvailableModels(installedModels): the new value of
\* this._config.models, installedModels the names the backend lists
updateAvailableModels(models, installedModels) ==
    [k \in DOMAIN installedModels |->
       LET existingModel == getModelById(models, installedModels[k])
       IN IF existingModel # 0 THEN models[existingModel]
          ELSE LLMModel(installedModels[k], installedModels[k], 4096, 2048, Unpriced)]

\* OllamaProvider.checkAvailability() of call i resolves, the answer of
\* /api/tags holding a models array: the catalog is replaced, then getStatus
\* caches and returns the status
installedModelsArrive(i, installedModels) ==
    /\ backend = "ollama"
    /\ calls[i].pc = "probe"
    /\ providerConfig' =
          [providerConfig EXCEPT
             !.models = updateAvailableModels(providerConfig.models, installedModels)]
    /\ lastStatus' = Status(TRUE, now, calls[i].startTime)
    /\ calls' = [calls EXCEPT
                   ![i] = isAvailableBody(
                            ProbeSettled([@ EXCEPT !.response = installedModels], TRUE, now))]
    /\ history' = history \o <<Event("updateAvailableModels", i, 0, 0, FALSE),
                                Event("probeSettled", i, 0, 0, FALSE)>>
    /\ UNCHANGED <<managerVars, backend, usageStats, now>>

(************************ the Manager: getProviderStatuses *******************)
\* How a registered provider's getStatus() promise settles: resolved with a
\* status, or rejected with an Error carrying a message (an ILLMProvider that
\* is not a BaseLLMProvider may reject).
ProviderOutcome(rejected, status, message) ==
    [rejected |-> rejected, status |-> status, message |-> message]

ProviderOutcomes ==
    {ProviderOutcome(FALSE, Status(TRUE, now, now), ""),
     ProviderOutcome(FALSE, Status(FALSE, now, now), ""),
     ProviderOutcome(TRUE, NoStatus, "boom")}

\* no getProviderStatuses call made yet
NoStatusesCall ==
    [pc |-> "idle", entries |-> <<>>, pending |-> {}, outcomes |-> <<>>,
     statuses |-> <<>>, outcome |-> "none"]

\* as StatusEntry, the rejection not caught
StatusEntry_Uncaught(o, t) == o.status

\* try { statuses[name] = await provider.getStatus() }
\* catch (error) { statuses[name] = { available: false, error: error.message, lastChecked: new Date() } }
StatusEntry(o, t) ==
    IF o.rejected
    THEN [set |-> TRUE, available |-> FALSE, error |-> o.message,
          lastChecked |-> t, responseTime |-> -1]
    ELSE o.status

\* getProviderStatuses() up to await Promise.all(statusPromises): the map
\* callback has called getStatus() on every entry of this.providers, in order
getProviderStatuses ==
    /\ statusesCall.pc # "pending"
    /\ statusesCall' =
          [pc |-> "pending",
           entries |-> [i \in DOMAIN providers |-> providers[i].key],
           pending |-> MapKeys(providers),
           outcomes |-> <<>>, statuses |-> <<>>, outcome |-> "pending"]
    /\ call' = Call("getProviderStatuses", Null, "undefined")
    /\ UNCHANGED <<config, providers, activeProvider, req, trace, result, providerVars>>

\* the getStatus() promise of the provider registered under nm settles and
\* the callback's continuation stores its entry
getStatusSettles(nm, o) ==
    /\ statusesCall.pc = "pending"
    /\ nm \in statusesCall.pending
    /\ statusesCall' =
          [statusesCall EXCEPT
             !.pending = @ \ {nm},
             !.outcomes = @ @@ (nm :> o),
             !.statuses = (nm :> StatusEntry(o, now)) @@ @]
    /\ UNCHANGED <<config, providers, activeProvider, req, trace, result, call, providerVars>>

\* await Promise.all(statusPromises) resumes; return statuses
promiseAllResolves ==
    /\ statusesCall.pc = "pending"
    /\ statusesCall.pending = {}
    /\ statusesCall' = [statusesCall EXCEPT !.pc = "done", !.outcome = "returned"]
    /\ UNCHANGED <<config, providers, activeProvider, req, trace, result, call, providerVars>>

(************************ a provider: streaming ******************************)
\* The response body is text, delivered by reader.read() in pieces of any
\* size.  The JSON texts are shortened to the fields the parsers read.

\* s.startsWith(prefix)
StartsWith(s, prefix) ==
    Len(s) >= Len(prefix) /\ SubSeq(s, 1, Len(prefix)) = prefix

\* s.indexOf(c, i), counted from 1; 0: not found
RECURSIVE IndexOf(_, _, _)
IndexOf(s, c, i) ==
    IF i > Len(s) THEN 0
    ELSE IF SubSeq(s, i, i) = c THEN i ELSE IndexOf(s, c, i + 1)

\* s.split('\n')
RECURSIVE Split(_)
Split(s) ==
    LET n == IndexOf(s, "\n", 1) IN
    IF n = 0 THEN <<s>>
    ELSE <<SubSeq(s, 1, n - 1)>> \o Split(SubSeq(s, n + 1, Len(s)))

WhiteSpace == {" ", "\r", "\t"}

\* s.trim()
RECURSIVE Trim(_)
Trim(s) ==
    IF s = "" THEN s
    ELSE IF SubSeq(s, 1, 1) \in WhiteSpace THEN Trim(SubSeq(s, 2, Len(s)))
    ELSE IF SubSeq(s, Len(s), Len(s)) \in WhiteSpace THEN Trim(SubSeq(s, 1, Len(s) - 1))
    ELSE s

\* the content strings the backend streams ("" is an empty delta)
Contents == {"Hi", "!"}

\* A JSON object of a stream line, by the fields the parsers read:
\* type (Anthropic), content (choices[0].delta.content, delta.text,
\* message.content), done and eval_count (Ollama).
JsonObject(type, content, done, tokens) ==
    [type |-> type, content |-> content, done |-> done, tokens |-> tokens]

SyntaxError == JsonObject("SyntaxError", "", FALSE, 0)

\* the objects backend b sends
JsonObjects(b) ==
    CASE b = "openai" ->
           {JsonObject(Null, x, FALSE, 0) : x \in Contents \cup {""}}
      [] b = "anthropic" ->
           {JsonObject("content_block_delta", x, FALSE, 0) : x \in Contents \cup {""}}
           \cup {JsonObject("message_stop", "", FALSE, 0), JsonObject("ping", "", FALSE, 0)}
      [] b = "ollama" ->
           {JsonObject(Null, x, FALSE, 0) : x \in Contents \cup {""}}
           \cup {JsonObject(Null, x, TRUE, EvalCount) : x \in Contents \cup {""}}

\* JSON.stringify of such an object, as backend b writes it
JsonText(b, o) ==
    CASE b = "openai" -> "{\"content\":\"" \o o.content \o "\"}"
      [] b = "anthropic" ->
           IF o.type = "content_block_delta"
           THEN "{\"type\":\"content_block_delta\",\"text\":\"" \o o.content \o "\"}"
           ELSE "{\"type\":\"" \o o.type \o "\"}"
      [] b = "ollama" ->
           "{\"content\":\"" \o o.content \o "\","
             \o (IF o.done
                 THEN "\"done\":true,\"eval_count\":" \o ToString(o.tokens) \o "}"
                 ELSE "\"done\":false}")

\* JSON.parse(text): the object, or SyntaxError when text is not JSON
JSONparse(b, text) ==
    IF \E o \in JsonObjects(b) : JsonText(b, o) = text
    THEN CHOOSE o \in JsonObjects(b) : JsonText(b, o) = text
    ELSE SyntaxError

\* What one line of the body means to the parser of backend b: nothing
\* (skip), a content delta, the completion signal (stop), or, for Ollama,
\* a delta and the completion signal together.
Meaning(skip, delta, stop, tokens) ==
    [skip |-> skip, delta |-> delta, stop |-> stop, tokens |-> tokens]

Skip == Meaning(TRUE, "", FALSE, 0)

Interpret(b, line) ==
    LET trimmed == Trim(line) IN
    CASE b = "openai" ->
           IF trimmed = "" \/ ~StartsWith(trimmed, "data: ") THEN Skip
           ELSE LET data == SubSeq(trimmed, 7, Len(trimmed)) IN
                IF data = "[DONE]" THEN Meaning(FALSE, "", TRUE, 0)
                ELSE LET parsed == JSONparse(b, data) IN
                     IF parsed = SyntaxError THEN Skip
                     ELSE Meaning(FALSE, parsed.content, FALSE, 0)
      [] b = "anthropic" ->
           IF trimmed = "" \/ ~StartsWith(trimmed, "data: ") THEN Skip
           ELSE LET parsed == JSONparse(b, SubSeq(trimmed, 7, Len(trimmed))) IN
                IF parsed = SyntaxError THEN Skip
                ELSE IF parsed.type = "content_block_delta"
                THEN Meaning(FALSE, parsed.content, FALSE, 0)
                ELSE IF parsed.type = "message_stop"
                THEN Meaning(FALSE, "", TRUE, 0)
                ELSE Skip
      [] b = "ollama" ->
           IF trimmed = "" THEN Skip
           ELSE LET parsed == JSONparse(b, trimmed) IN
                IF parsed = SyntaxError THEN Skip
                ELSE Meaning(FALSE, parsed.content, parsed.done, parsed.tokens)

\* Math.ceil(text.length / 4)
estimateTokens(text) == (Len(text) + 3) \div 4

\* calculateCost of a stream: tokens completion tokens at the output price;
\* the local backend records no cost
StreamCost(b, tokens) == IF b = "ollama" THEN 0 ELSE tokens * OutputPrice

\* as NonFinalChunk, content holding the delta alone
NonFinalChunk_DeltaOnly(totalContent, delta) ==
    [content |-> delta, delta |-> delta, finished |-> FALSE]

\* the chunk of a content delta
NonFinalChunk(totalContent, delta) ==
    [content |-> totalContent, delta |-> delta, finished |-> FALSE]

FinalChunk(totalContent) ==
    [content |-> totalContent, delta |-> "", finished |-> TRUE]

\* the completion signal is read: finalize the usage stats, yield the final chunk
Finish(P, i, reported) ==
    LET tokens == IF backend = "ollama" THEN reported
                  ELSE estimateTokens(P.calls[i].totalContent)
        Q == Update([P EXCEPT !.calls[i].tokens = tokens,
                              !.calls[i].cost = StreamCost(backend, tokens)],
                    i, tokens, StreamCost(backend, tokens), FALSE)
    IN [Q EXCEPT !.calls[i].pc = "yieldFinal",
                 !.calls[i].pendingStop = FALSE,
                 !.calls[i].out = Append(@, FinalChunk(Q.calls[i].totalContent))]

\* for (const line of lines): run to the next yield, or back to reader.read()
RECURSIVE ForLines(_, _)
ForLines(P, i) ==
    LET f == P.calls[i] IN
    IF f.lines = <<>> THEN [P EXCEPT !.calls[i].pc = "read"]
    ELSE LET m == Interpret(backend, Head(f.lines))
             Q == [P EXCEPT !.calls[i].lines = Tail(f.lines)]
         IN IF m.skip THEN ForLines(Q, i)
            ELSE IF m.delta # ""
            THEN [Q EXCEPT !.calls[i].totalContent = f.totalContent \o m.delta,
                           !.calls[i].out =
                               Append(@, NonFinalChunk(f.totalContent \o m.delta, m.delta)),
                           !.calls[i].pendingStop = m.stop,
                           !.calls[i].tokens = m.tokens,
                           !.calls[i].pc = "yield"]
            ELSE IF m.stop THEN Finish(Q, i, m.tokens)
            ELSE ForLines(Q, i)

\* as OnRead, the unfinished line of the read before not kept
OnRead_NoBuffer(P, i, value) ==
    LET all == Split(value) IN
    ForLines([P EXCEPT !.calls[i].buffer = all[Len(all)],
                       !.calls[i].lines = SubSeq(all, 1, Len(all) - 1)], i)

\* buffer += decode(value); lines = buffer.split('\n'); buffer = lines.pop() || ''
OnRead(P, i, value) ==
    LET all == Split(P.calls[i].buffer \o value) IN
    ForLines([P EXCEPT !.calls[i].buffer = all[Len(all)],
                       !.calls[i].lines = SubSeq(all, 1, Len(all) - 1)], i)

\* provider.sendMessageStream(request), first next(): up to await fetch(...)
Provider_sendMessageStream(body) ==
    /\ Len(calls) < MaxCalls
    /\ calls' = Append(calls, CallFrame("sendMessageStream", body))
    /\ UNCHANGED <<managerVars, backend, providerConfig, usageStats, lastStatus, now, history>>

\* fetch(...) of sendMessageStream resolves with an OK response: with a body,
\* await reader.read() is next; without one, throw new Error('No response body')
streamFetchResolvesOk(i, hasBody) ==
    /\ calls[i].pc = "fetch"
    /\ calls[i].op = "sendMessageStream"
    /\ ProviderBecomes(IF hasBody
                       THEN [ProviderFrame EXCEPT !.calls[i].pc = "read"]
                       ELSE CatchBlock(ProviderFrame, i))
    /\ UNCHANGED <<managerVars, backend, providerConfig, lastStatus, now>>

\* reader.read() resolves with the next n characters of the body
readResolves(i, n) ==
    /\ calls[i].pc = "read"
    /\ n \in 1..Len(calls[i].body)
    /\ ProviderBecomes(
         OnRead([ProviderFrame EXCEPT
                   !.calls[i].body = SubSeq(@, n + 1, Len(@))],
                i, SubSeq(calls[i].body, 1, n)))
    /\ UNCHANGED <<managerVars, backend, providerConfig, lastStatus, now>>

\* reader.read() resolves with done: break, releaseLock, the generator returns
readDone(i) ==
    /\ calls[i].pc = "read"
    /\ calls[i].body = ""
    /\ ProviderBecomes(Settle(ProviderFrame, i, "returned"))
    /\ UNCHANGED <<managerVars, backend, providerConfig, lastStatus, now>>

\* reader.read() rejects (the connection drops): releaseLock, the catch block
readRejects(i) ==
    /\ calls[i].pc = "read"
    /\ ProviderBecomes(CatchBlock(ProviderFrame, i))
    /\ UNCHANGED <<managerVars, backend, providerConfig, lastStatus, now>>

\* the consumer asks for the next chunk: the generator resumes after its yield
resume(i) ==
    /\ calls[i].pc \in {"yield", "yieldFinal"}
    /\ ProviderBecomes(
         IF calls[i].pc = "yieldFinal" THEN Settle(ProviderFrame, i, "returned")
         ELSE IF calls[i].pendingStop
         THEN Finish(ProviderFrame, i, calls[i].tokens)
         ELSE ForLines(ProviderFrame, i))
    /\ UNCHANGED <<managerVars, backend, providerConfig, lastStatus, now>>

(************************ a provider: cost estimate **************************)
\* Amounts of money are whole numbers of 0.000000001 dollar, prices whole
\* numbers of 0.00001 dollar per 1000 tokens; floating-point rounding of the
\* last binary digit is not modelled.

\* request.messages.map(m => m.content).join(' ')
RECURSIVE JoinContents(_)
JoinContents(contents) ==
    IF contents = <<>> THEN ""
    ELSE IF Len(contents) = 1 THEN contents[1]
    ELSE contents[1] \o " " \o JoinContents(Tail(contents))

\* what a synchronous call gives its caller: a number, or a TypeError thrown
Returned(value) == [threw |-> FALSE, value |-> value]
ThrewTypeError == [threw |-> TRUE, value |-> 0]

\* request.maxTokens || model.maxTokens * 0.1, in tenths of a token
estimatedOutputTokens(request, model) ==
    IF request.maxTokens # 0 THEN 10 * request.maxTokens ELSE model.maxTokens

\* BaseLLMProvider.estimateCost(request) under the configuration cfg; a request
\* without a model (Null) names the default model, models[0], whose id cannot
\* be read when the catalog is empty
BaseLLMProvider_estimateCost(cfg, request) ==
    IF request.model = Null /\ cfg.models = <<>>
    THEN ThrewTypeError
    ELSE LET modelId == IF request.model # Null THEN request.model ELSE cfg.models[1].id
             k == getModelById(cfg.models, modelId)
         IN IF k = 0 \/ ~cfg.models[k].costPer1kTokens.defined
            THEN Returned(0)
            ELSE LET model == cfg.models[k]
                     estimatedInputTokens == estimateTokens(JoinContents(request.messages))
                 IN Returned(10 * estimatedInputTokens * model.costPer1kTokens.input
                             + estimatedOutputTokens(request, model)
                                   * model.costPer1kTokens.output)

\* LLMManager.estimateCost(request, providerName): every registered provider
\* is an object configured as providerConfig
estimateCost(request, providerName) ==
    /\ call' = [op |-> "estimateCost",
                arg |-> [request |-> request, providerName |-> providerName],
                ret |-> IF getProviderForRequest(providerName) = Null
                        THEN Returned(0)
                        ELSE BaseLLMProvider_estimateCost(providerConfig, request),
                active |-> activeProvider]
    /\ UNCHANGED <<config, providers, activeProvider, req, trace, result,
                   statusesCall, providerVars>>

(************************ Anthropic: the request payload *********************)
\* an LLMMessage
LLMMessage(role, content) == [role |-> role, content |-> content, timestamp |-> 0]

\* parts.join(sep)
RECURSIVE JoinWith(_, _)
JoinWith(parts, sep) ==
    IF parts = <<>> THEN ""
    ELSE IF Len(parts) = 1 THEN parts[1]
    ELSE parts[1] \o sep \o JoinWith(Tail(parts), sep)

\* parts.filter(Boolean): undefined (Null) and '' are dropped
FilterBoolean(parts) == SelectSeq(parts, LAMBDA x : x # Null /\ x # "")

\* systemMessages.map(msg => msg.content)
SystemMessageContents(request) ==
    LET systemMessages == SelectSeq(request.messages, LAMBDA msg : msg.role = "system")
    IN [k \in DOMAIN systemMessages |-> systemMessages[k].content]

\* as SystemParts, the explicit prompt put after the system messages
SystemParts_PromptLast(request) ==
    SystemMessageContents(request) \o <<request.systemPrompt>>

\* [request.systemPrompt, ...systemMessages.map(msg => msg.content)]
SystemParts(request) ==
    <<request.systemPrompt>> \o SystemMessageContents(request)

\* AnthropicProvider.buildRequestPayload(request, stream), shortened to model,
\* messages and system (hasSystem: the payload has a system property)
Anthropic_buildRequestPayload(cfg, request) ==
    LET conversationMessages == SelectSeq(request.messages, LAMBDA msg : msg.role # "system")
        systemPrompt == JoinWith(FilterBoolean(SystemParts(request)), "\n\n")
    IN [model |-> IF request.model # Null THEN request.model ELSE cfg.models[1].id,
        messages |-> [k \in DOMAIN conversationMessages |->
                        [role |-> conversationMessages[k].role,
                         content |-> conversationMessages[k].content]],
        hasSystem |-> systemPrompt # "",
        system |-> IF systemPrompt # "" THEN systemPrompt ELSE Null]

\* the payload sendMessage and sendMessageStream build for a request
buildRequestPayload(request) ==
    /\ backend = "anthropic"
    /\ call' = [op |-> "buildRequestPayload", arg |-> request,
                ret |-> Anthropic_buildRequestPayload(providerConfig, request),
                active |-> activeProvider]
    /\ UNCHANGED <<config, providers, activeProvider, req, trace, result,
                   statusesCall, providerVars>>

(************************ specifications *************************************)
\* The Manager as constructed: new LLMManager(config), no provider registered.
Constructed ==
    /\ providers = <<>>
    /\ activeProvider = Null
    /\ req = IdleReq
    /\ trace = <<>>
    /\ result = NoResult
    /\ call = NoCall
    /\ statusesCall = NoStatusesCall

\* the name fields drawn for updateProviderConfig during requests
RenameNames == {Null, "gamma"}

Init ==
    /\ config \in Configs
    /\ Constructed
    /\ backend = "openai"
    /\ ProviderConstructed

RegistryNext ==
    \/ \E nm \in Names : registerProvider(nm)
    \/ \E k \in Names : unregisterProvider(k)
    \/ \E k \in Names : setActiveProvider(k)
    \/ \E k \in Names, pn \in RenameNames : updateProviderConfig(k, pn)

RequestNext ==
    \/ \E pn \in Names \cup {Null} : sendMessage(pn)
    \/ primaryReturns
    \/ \E e \in ProviderErrors(req.primaryProviderName) : primaryThrows(e)
    \/ delayElapsed
    \/ \E b \in BOOLEAN : isAvailableReturns(b)
    \/ fallbackReturns
    \/ \E e \in FallbackErrors(MapGet(providers, req.fallbackName)) : fallbackThrows(e)
    \/ \E pn \in Names \cup {Null} : sendMessageStream(pn)
    \/ streamYields
    \/ streamReturns
    \/ \E e \in ProviderErrors(req.primaryProviderName) : streamThrows(e)
    \/ settled

Next == RegistryNext \/ RequestNext

\* The Manager serving requests over the registries its operations build.
Spec == Init /\ [][Next]_vars

\* What executeWithRetryAndFallback awaits: a provider's sendMessage, a
\* provider's isAvailable, the timer of delay().
AwaitedSettles ==
    \/ primaryReturns
    \/ \E e \in ProviderErrors(req.primaryProviderName) : primaryThrows(e)
    \/ delayElapsed
    \/ \E b \in BOOLEAN : isAvailableReturns(b)
    \/ fallbackReturns
    \/ \E e \in FallbackErrors(MapGet(providers, req.fallbackName)) : fallbackThrows(e)

\* Manager.sendMessage over the registries registerProvider and
\* setActiveProvider build.
ReturningNext ==
    \/ \E nm \in Names : registerProvider(nm)
    \/ \E k \in Names : setActiveProvider(k)
    \/ \E pn \in Names \cup {Null} : sendMessage(pn)
    \/ AwaitedSettles
    \/ settled

\* Every provider call and every sleep of Manager.sendMessage returning.
ReturningSpec == Init /\ [][ReturningNext]_vars /\ WF_vars(AwaitedSettles)

\* The registry alone: every default provider, every name field.
RegistryConfigs ==
    [defaultProvider : Names \cup {Null},
     fallbackProviders : {[defined |-> FALSE, names |-> <<>>]},
     retryAttempts : {0},
     retryDelay : {0},
     enableFallback : {TRUE}]

RegistryInit ==
    /\ config \in RegistryConfigs
    /\ Constructed
    /\ backend = "openai"
    /\ ProviderConstructed

RegistryOps ==
    \/ \E nm \in Names : registerProvider(nm)
    \/ \E k \in Names : unregisterProvider(k)
    \/ \E k \in Names : setActiveProvider(k)
    \/ \E k \in Names, pn \in Names \cup {Null} : updateProviderConfig(k, pn)

RegistrySpec == RegistryInit /\ [][RegistryOps]_vars

\* getProviderStatuses calls, providers registered and unregistered meanwhile
StatusesNext ==
    \/ \E nm \in Names : registerProvider(nm)
    \/ \E k \in Names : unregisterProvider(k)
    \/ getProviderStatuses
    \/ \E nm \in Names, o \in ProviderOutcomes : getStatusSettles(nm, o)
    \/ promiseAllResolves

StatusesSpec == RegistryInit /\ [][StatusesNext]_vars

\* a non-OK response: its status and its retry-after header (Null: none)
HttpResponse(status, retryAfter) == [status |-> status, retryAfter |-> retryAfter]

\* A provider object of each class on its own, its Manager untouched.
ProviderInit ==
    /\ config \in RegistryConfigs
    /\ config.defaultProvider = Null
    /\ Constructed
    /\ backend \in Backends
    /\ ProviderConstructed

\* the responses drawn: usage.totalTokens (0: no usage reported) and what
\* calculateCost makes of the usage
Responses ==
    {[tokens |-> 0, priced |-> 0], [tokens |-> 3, priced |-> 2],
     [tokens |-> 5, priced |-> 1]}

\* Calls of the provider's sendMessage, overlapping as their awaits allow,
\* all within one minute.
UsageNext ==
    \/ Provider_sendMessage
    \/ \E i \in DOMAIN calls : fetchRejects(i)
    \/ \E i \in DOMAIN calls : fetchResolvesNotOk(i, HttpResponse(500, Null))
    \/ \E i \in DOMAIN calls : errorDataSettles(i)
    \/ \E i \in DOMAIN calls : fetchResolvesOk(i)
    \/ \E i \in DOMAIN calls, r \in Responses : jsonResolves(i, r.tokens, r.priced)
    \/ \E i \in DOMAIN calls : jsonRejects(i)
    \/ resetUsageStats

UsageSpec == ProviderInit /\ [][UsageNext]_vars

\* the lines backend b may send: content deltas, an empty delta, the
\* completion signal, a line that is not JSON
DeltaLine(b, x) ==
    IF b = "ollama" THEN JsonText(b, JsonObject(Null, x, FALSE, 0))
    ELSE IF b = "anthropic"
    THEN "data: " \o JsonText(b, JsonObject("content_block_delta", x, FALSE, 0))
    ELSE "data: " \o JsonText(b, JsonObject(Null, x, FALSE, 0))

CompletionLine(b) ==
    IF b = "ollama" THEN JsonText(b, JsonObject(Null, "", TRUE, EvalCount))
    ELSE IF b = "anthropic"
    THEN "data: " \o JsonText(b, JsonObject("message_stop", "", FALSE, 0))
    ELSE "data: [DONE]"

MalformedLine(b) == IF b = "ollama" THEN "{\"cont" ELSE "data: {\"cont"

BodyLines(b) ==
    {DeltaLine(b, x) : x \in Contents \cup {""}}
    \cup {CompletionLine(b), MalformedLine(b)}

\* lines.join('\n')
RECURSIVE Join(_)
Join(lines) ==
    IF lines = <<>> THEN ""
    ELSE IF Len(lines) = 1 THEN lines[1]
    ELSE lines[1] \o "\n" \o Join(Tail(lines))

\* the response bodies: up to MaxLines lines, the last one with or without
\* its newline
Scripts(b) == UNION {[1..n -> BodyLines(b)] : n \in 0..MaxLines}

Bodies(b) ==
    {Join(sc) : sc \in Scripts(b)} \cup {Join(sc) \o "\n" : sc \in Scripts(b) \ {<<>>}}

\* the sizes of the pieces reader.read() delivers: short ones, and all the rest
ReadSizes(body) == {n \in 1..Len(body) : n <= MaxRead \/ n = Len(body)}

\* One stream of a fresh provider, consumed to its end.
StreamNext ==
    \/ calls = <<>> /\ \E body \in Bodies(backend) : Provider_sendMessageStream(body)
    \/ \E i \in DOMAIN calls : fetchRejects(i)
    \/ \E i \in DOMAIN calls : fetchResolvesNotOk(i, HttpResponse(500, Null))
    \/ \E i \in DOMAIN calls : errorDataSettles(i)
    \/ \E i \in DOMAIN calls, hasBody \in BOOLEAN : streamFetchResolvesOk(i, hasBody)
    \/ \E i \in DOMAIN calls : \E n \in ReadSizes(calls[i].body) : readResolves(i, n)
    \/ \E i \in DOMAIN calls : readDone(i)
    \/ \E i \in DOMAIN calls : readRejects(i)
    \/ \E i \in DOMAIN calls : resume(i)

StreamSpec == ProviderInit /\ [][StreamNext]_vars

\* the lines of the bodies read in pieces of every size
SplitLines(b) ==
    {DeltaLine(b, x) : x \in Contents} \cup {CompletionLine(b), MalformedLine(b)}

\* their scripts: every script of up to MaxSplitLines lines, and a stream of
\* two deltas with a malformed line between them
SplitScripts(b) ==
    UNION {[1..n -> SplitLines(b)] : n \in 1..MaxSplitLines}
    \cup {<<DeltaLine(b, "Hi"), MalformedLine(b), DeltaLine(b, "!"), CompletionLine(b)>>}

\* newline-terminated bodies
SplitBodies(b) == {Join(sc) \o "\n" : sc \in SplitScripts(b)}

\* One stream of a fresh provider, its body arriving in reads of any sizes,
\* consumed to its end.
SplitNext ==
    \/ calls = <<>> /\ \E body \in SplitBodies(backend) : Provider_sendMessageStream(body)
    \/ \E i \in DOMAIN calls : streamFetchResolvesOk(i, TRUE)
    \/ \E i \in DOMAIN calls : \E n \in 1..Len(calls[i].body) : readResolves(i, n)
    \/ \E i \in DOMAIN calls : readDone(i)
    \/ \E i \in DOMAIN calls : resume(i)

SplitSpec == ProviderInit /\ [][SplitNext]_vars

\* the non-OK responses a backend answers with
ErrorResponses ==
    {HttpResponse(st, ra) : st \in {401, 429, 500}, ra \in {Null, "2"}}

\* sendMessage and sendMessageStream calls of one provider that fail: the
\* backend refuses the request or cannot be reached
ErrorNext ==
    \/ Len(calls) < MaxFailedCalls /\ Provider_sendMessage
    \/ Len(calls) < MaxFailedCalls /\ Provider_sendMessageStream("")
    \/ \E i \in DOMAIN calls : fetchRejects(i)
    \/ \E i \in DOMAIN calls, response \in ErrorResponses : fetchResolvesNotOk(i, response)
    \/ \E i \in DOMAIN calls : errorDataSettles(i)

ErrorSpec == ProviderInit /\ [][ErrorNext]_vars

\* the partial configurations given to updateConfig
PartialConfigs == {[baseUrl |-> "https://b"]}

\* getStatus, isStatusFresh and updateConfig are the base class's
StatusInit ==
    /\ ProviderInit
    /\ backend = "openai"

\* getStatus calls of one provider over the minutes, its configuration updated
\* in between.
StatusNext ==
    \/ getStatus
    \/ \E i \in DOMAIN calls, ok \in BOOLEAN : checkAvailabilitySettles(i, ok)
    \/ \E partial \in PartialConfigs : updateConfig(partial)
    \/ tick(MaxNow)

StatusSpec == StatusInit /\ [][StatusNext]_vars

\* getStatus and isAvailable calls of one provider over the minutes
AvailabilityNext ==
    \/ getStatus
    \/ Provider_isAvailable
    \/ \E i \in DOMAIN calls, ok \in BOOLEAN : checkAvailabilitySettles(i, ok)
    \/ tick(MaxNow)

AvailabilitySpec == StatusInit /\ [][AvailabilityNext]_vars

\* texts of 100, 200 and 400 characters
Text100 ==
    "xxxxxxxxxxxxxxxxxxxxxxxxxxxxxxxxxxxxxxxxxxxxxxxxxx"
        \o "xxxxxxxxxxxxxxxxxxxxxxxxxxxxxxxxxxxxxxxxxxxxxxxxxx"
Text200 == Text100 \o Text100
Text400 == Text200 \o Text200

\* the message contents drawn for estimateCost
EstimateContents == {"xxx", Text200, Text400}

\* the requests drawn for estimateCost: model (Null: none), the contents of
\* up to MaxMessages messages, maxTokens (0: none)
EstimateRequests ==
    [model : {Null, "m1", "m2", "m9"},
     messages : UNION {[1..n -> EstimateContents] : n \in 0..MaxMessages},
     maxTokens : {0, 50}]

\* a catalog with a priced and an unpriced model of maxTokens 100
PricedCatalog ==
    <<LLMModel("m1", "Model 1", 4096, 100, Priced(1000, 2000)),
      LLMModel("m2", "Model 2", 4096, 100, Unpriced)>>

\* the catalogs given to updateConfig before estimating
CatalogConfigs == {[models |-> PricedCatalog], [models |-> <<>>]}

\* estimateCost calls through the Manager, on providers configured with the
\* default or another catalog, no two calls in a row
EstimateNext ==
    \/ \E nm \in {"alpha", "beta"} : registerProvider(nm)
    \/ \E partial \in CatalogConfigs : updateConfig(partial)
    \/ /\ call.op # "estimateCost"
       /\ \E request \in EstimateRequests, providerName \in {Null, "beta"} :
             estimateCost(request, providerName)

EstimateSpec == ProviderInit /\ [][EstimateNext]_vars

\* the messages drawn for a payload
PayloadMessages ==
    {LLMMessage(role, content) :
        role \in {"system", "user", "assistant"}, content \in {"", "a", "b"}}

\* the requests drawn for a payload: with no systemPrompt (Null), an empty
\* one or "P", and up to MaxPayloadMessages messages
PayloadRequests ==
    [model : {Null},
     systemPrompt : {Null, "", "P"},
     messages : UNION {[1..n -> PayloadMessages] : n \in 0..MaxPayloadMessages}]

PayloadInit ==
    /\ ProviderInit
    /\ backend = "anthropic"

\* one payload built
PayloadNext ==
    call = NoCall /\ \E request \in PayloadRequests : buildRequestPayload(request)

PayloadSpec == PayloadInit /\ [][PayloadNext]_vars

\* the names in the models array of an /api/tags answer: up to MaxInstalled
\* of two catalogued models and one that is not
InstalledLists ==
    UNION {[1..n -> {"llama2", "codellama", "phi"}] : n \in 0..MaxInstalled}

RefreshInit ==
    /\ ProviderInit
    /\ backend = "ollama"

\* Status probes of an Ollama provider, each answer listing the installed
\* models or none, among sendMessage calls that fail.
RefreshNext ==
    \/ getStatus
    \/ \E i \in DOMAIN calls, ok \in BOOLEAN : checkAvailabilitySettles(i, ok)
    \/ \E i \in DOMAIN calls, installedModels \in InstalledLists :
          installedModelsArrive(i, installedModels)
    \/ Len(calls) < MaxStatusCalls /\ Provider_sendMessage
    \/ \E i \in DOMAIN calls : fetchRejects(i)

RefreshSpec == RefreshInit /\ [][RefreshNext]_vars

(************************ reading the trace **********************************)
PrimaryCalls ==
    {i \in DOMAIN trace : trace[i].op = "sendMessage" /\ trace[i].role = "primary"}

FallbackEntries == {i \in DOMAIN trace : trace[i].role = "fallback"}

FallbackSends == {i \in FallbackEntries : trace[i].op = "sendMessage"}

Delays == {i \in DOMAIN trace : trace[i].op = "delay"}

Failed(e) == InstanceOfLLMError(e.outcome)

IsAuthentication(err) == InstanceOfLLMError(err) /\ err.code = "AUTH_ERROR"

IsHintedRateLimit(err) == err.class = "LLMRateLimitError" /\ err.retryAfter > 0

\* the sleep that follows entry i of the trace is over
WaitOver(i) == Len(trace) > i + 1 \/ (Len(trace) = i + 1 /\ req.pc # "delay")

\* the number of primary calls up to entry i
CallNumber(i) == Cardinality({j \in PrimaryCalls : j <= i})

RECURSIVE TotalDelay(_)
TotalDelay(t) ==
    IF t = <<>> THEN 0
    ELSE (IF Head(t).op = "delay" THEN Head(t).arg ELSE 0) + TotalDelay(Tail(t))

FallbackNames == config.fallbackProviders.names

ListIndex(nm) == CHOOSE j \in DOMAIN FallbackNames : FallbackNames[j] = nm

ServedByFallback ==
    /\ req.pc = "done"
    /\ result.status = "ok"
    /\ trace # <<>>
    /\ trace[Len(trace)].role = "fallback"

(************************ claims **********************************************)
\* C1: a primary attempt that fails with a RateLimit error carrying a
\* retry-after hint r > 0 is followed by a sleep of at least r seconds and by
\* another call of the primary at the same attempt count (the rate-limited
\* attempt takes no retry slot), whose success is the request's result; this
\* for every retryAttempts >= 1.
C1_RateLimitKeepsRetrySlot ==
    req.kind = "sendMessage" =>
      \A i \in PrimaryCalls :
        (IsHintedRateLimit(trace[i].outcome) /\ WaitOver(i)) =>
          /\ trace[i + 1].op = "delay"
          /\ trace[i + 1].arg >= trace[i].outcome.retryAfter * MsPerSecond
          /\ Len(trace) >= i + 2
          /\ i + 2 \in PrimaryCalls
          /\ trace[i + 2].arg = trace[i].arg
          /\ trace[i + 2].outcome = Ok =>
               (req.pc = "done" /\ result.status = "ok" /\ result.from = req.primary)

\* C2: when every call of the primary raises an Authentication error, the
\* primary is called exactly once, the Manager never sleeps, and whatever
\* follows the call belongs to the fallback phase.
C2_AuthShortCircuit ==
    (/\ req.kind = "sendMessage"
     /\ PrimaryCalls # {}
     /\ \A i \in PrimaryCalls : IsAuthentication(trace[i].outcome))
    => /\ Cardinality(PrimaryCalls) = 1
       /\ Delays = {}
       /\ req.pc \in {"isAvailable", "fallback", "done"}
       /\ \A i \in DOMAIN trace : i > 1 => trace[i].role = "fallback"
       /\ req.pc = "done" /\ ~ServedByFallback =>
            (result.status = "error" /\ IsAuthentication(result.error))

C2_Witness ==
    /\ req.kind = "sendMessage"
    /\ req.pc = "fallback"
    /\ RetryAttempts = 3
    /\ Len(trace) = 3
    /\ IsAuthentication(trace[1].outcome)

\* C3: when the primary's failures are neither Authentication errors nor
\* hinted RateLimit errors, it is called at most retryAttempts times, the
\* k-th failed attempt is followed by a sleep of baseDelay * k when
\* k < retryAttempts and by no sleep when k = retryAttempts, and the first
\* success is the result; with three attempts, two failures and a success
\* the total sleep is baseDelay * 1 + baseDelay * 2.
C3_LinearBackoff ==
    (/\ req.kind = "sendMessage"
     /\ \A i \in PrimaryCalls :
          Failed(trace[i]) =>
            (~IsAuthentication(trace[i].outcome) /\ ~IsHintedRateLimit(trace[i].outcome)))
    => /\ Cardinality(PrimaryCalls) <= RetryAttempts
       /\ \A i \in PrimaryCalls :
            Failed(trace[i]) =>
              IF CallNumber(i) < RetryAttempts
              THEN /\ i + 1 \in Delays
                   /\ trace[i + 1].arg = RetryDelay * CallNumber(i)
                   /\ WaitOver(i) => i + 2 \in PrimaryCalls
              ELSE /\ i + 1 \notin Delays
                   /\ \A j \in PrimaryCalls : j <= i
       /\ \A i \in Delays : i > 1 /\ i - 1 \in PrimaryCalls /\ Failed(trace[i - 1])
       /\ \A i \in PrimaryCalls :
            trace[i].outcome = Ok =>
              /\ i = Len(trace)
              /\ req.pc = "done"
              /\ result.status = "ok"
              /\ result.from = req.primary
       /\ (Cardinality(PrimaryCalls) = 3 /\ req.pc = "done" /\ result.status = "ok"
             /\ FallbackEntries = {})
            => TotalDelay(trace) = RetryDelay * 1 + RetryDelay * 2

C3_Witness ==
    /\ req.kind = "sendMessage"
    /\ req.pc = "done"
    /\ result.status = "ok"
    /\ RetryAttempts = 3
    /\ Len(trace) = 5
    /\ trace[1].outcome.code = "NETWORK_ERROR"
    /\ trace[3].outcome.code = "RATE_LIMIT"
    /\ trace[5].outcome = Ok
    /\ TotalDelay(trace) = 3 * ConfiguredDelay

\* C4: the fallback names are tried in list order; the primary provider's
\* name is never called as a fallback; an unregistered name gets no call; a
\* provider whose isAvailable() answered false gets no sendMessage; no
\* callable name is passed over; and the result is that of the first fallback
\* whose one sendMessage call succeeds.
C4_FallbackOrder ==
    req.kind = "sendMessage" =>
      /\ \A i \in FallbackEntries :
           /\ trace[i].target # req.primaryProviderName
           /\ MapHas(providers, trace[i].target)
           /\ \E j \in DOMAIN FallbackNames : FallbackNames[j] = trace[i].target
           /\ \A j \in DOMAIN FallbackNames :
                (j < ListIndex(trace[i].target)
                   /\ FallbackNames[j] # req.primaryProviderName
                   /\ MapHas(providers, FallbackNames[j]))
                => \E h \in FallbackEntries : h < i /\ trace[h].target = FallbackNames[j]
      /\ \A i, j \in FallbackEntries :
           i < j => ListIndex(trace[i].target) <= ListIndex(trace[j].target)
      /\ \A i \in FallbackSends :
           /\ i - 1 \in FallbackEntries
           /\ trace[i - 1].op = "isAvailable"
           /\ trace[i - 1].target = trace[i].target
           /\ trace[i - 1].outcome = Yes
      /\ \A i \in FallbackEntries :
           (trace[i].op = "isAvailable" /\ trace[i].outcome = Yes) =>
             i + 1 \in FallbackSends
      /\ \A i \in FallbackSends :
           trace[i].outcome = Ok =>
             /\ i = Len(trace)
             /\ req.pc = "done"
             /\ result.status = "ok"
             /\ result.from = trace[i].target
             /\ \A j \in FallbackSends : j < i => Failed(trace[j])
      /\ ServedByFallback => trace[Len(trace)].op = "sendMessage"

C4_Witness ==
    /\ ServedByFallback
    /\ req.primary = "alpha"
    /\ req.primaryProviderName = "alpha"
    /\ Cardinality(PrimaryCalls) = RetryAttempts
    /\ \A i \in PrimaryCalls : trace[i].outcome.code = "NETWORK_ERROR"
    /\ \E i \in FallbackEntries :
         trace[i].op = "isAvailable" /\ trace[i].target = "beta" /\ trace[i].outcome = No
    /\ result.from = "gamma"

\* C5: when the primary and every attempted fallback fail, the error raised
\* is that of the last provider call that failed, and ALL_FAILED is raised
\* only when no provider call failed.
C5_MostRecentErrorSurfaced ==
    (/\ req.kind = "sendMessage"
     /\ req.pc = "done"
     /\ result.status = "error"
     /\ req.primary # Null)
    => LET failed == {i \in DOMAIN trace : trace[i].op = "sendMessage" /\ Failed(trace[i])}
       IN IF failed = {}
          THEN result.error = LLMError("ALL_FAILED", "manager")
          ELSE result.error = trace[CHOOSE i \in failed : \A j \in failed : j <= i].outcome

C7_StreamBypassesRetry ==
    (req.kind = "sendMessageStream" /\ req.primary # Null) =>
      /\ trace # <<>>
      /\ trace[1] = Entry("sendMessageStream", req.primary, "primary", 0, Pending)
      /\ \A i \in DOMAIN trace :
           i > 1 => (trace[i].op = "chunk" /\ trace[i].target = req.primary)
      /\ result.chunks = [i \in 1..(Len(trace) - 1) |-> trace[i + 1].arg]
      /\ \A i \in DOMAIN result.chunks : result.chunks[i] = i
      /\ (req.pc = "done" /\ result.status = "error") =>
           result.error \in ProviderErrors(req.primaryProviderName)

C7_Witness ==
    /\ req.kind = "sendMessageStream"
    /\ req.pc = "done"
    /\ result.status = "error"
    /\ result.error.code = "NETWORK_ERROR"
    /\ Len(result.chunks) = MaxChunks
    /\ config.enableFallback
    /\ config.fallbackProviders.defined
    /\ \E nm \in MapKeys(providers) :
         /\ nm # req.primary
         /\ nm # req.primaryProviderName
         /\ \E j \in DOMAIN FallbackNames : FallbackNames[j] = nm

\* C8: the provider of a request is the named one if a name is given, else
\* the active one; with an unregistered name (whatever the active provider)
\* or with no active provider the request fails with NO_PROVIDER and no
\* provider is called, no sleep made, no fallback tried.
C8_NoProvider ==
    req.kind = "sendMessage" =>
      /\ req.providerName # Null /\ MapHas(providers, req.providerName) =>
           req.primary = req.providerName
      /\ req.providerName = Null /\ activeProvider # Null =>
           req.primary = activeProvider
      /\ (\/ req.providerName # Null /\ ~MapHas(providers, req.providerName)
          \/ req.providerName = Null /\ activeProvider = Null)
         => /\ req.pc = "done"
            /\ result = [status |-> "error", from |-> Null,
                         error |-> LLMError("NO_PROVIDER", "manager"), chunks |-> <<>>]
            /\ trace = <<>>

C8_Witness ==
    /\ req.kind = "sendMessage"
    /\ req.pc = "done"
    /\ req.providerName = "beta"
    /\ ~MapHas(providers, "beta")
    /\ activeProvider = "alpha"
    /\ config.enableFallback
    /\ config.fallbackProviders.defined
    /\ result.error.code = "NO_PROVIDER"

\* C9: the active-provider pointer is null or the name of a registered
\* provider, and it is null only when no provider is registered.
C9_ActiveIsRegistered ==
    /\ activeProvider = Null \/ MapHas(providers, activeProvider)
    /\ activeProvider = Null => providers = <<>>

C9_Witness ==
    /\ Len(providers) = 2
    /\ activeProvider = providers[2].key
    /\ providers[2].name # providers[2].key
    /\ config.defaultProvider \notin MapKeys(providers) \cup {Null}

\* C10: every key of the registry equals the name reported by the provider
\* stored under it, and no two registered providers report the same name.
C10_NameImmutable ==
    /\ \A i \in DOMAIN providers : providers[i].key = providers[i].name
    /\ \A i, j \in DOMAIN providers :
         providers[i].name = providers[j].name => i = j

\* C11: setActiveProvider called with a name that is not registered returns
\* false and leaves the active pointer and the registry unchanged; called with
\* a registered name it returns true and makes exactly that provider active
\* (the registry unchanged).
C11_SetActiveProvider ==
    [][\A k \in Names :
         (call'.op = "setActiveProvider" /\ call'.arg = k) =>
            /\ providers' = providers
            /\ IF k \in MapKeys(providers)
               THEN call'.ret = "true" /\ activeProvider' = k
               ELSE call'.ret = "false" /\ activeProvider' = activeProvider]_vars

\* a rejected setActiveProvider on a Manager that has an active provider
C11_Witness ==
    /\ call.op = "setActiveProvider"
    /\ call.ret = "false"
    /\ call.active # Null
    /\ activeProvider = call.active
    /\ ~MapHas(providers, call.arg)

\* C12: registerProvider changes the active provider only when no provider is
\* active or the registered provider's name equals the configured default, and
\* then to the registered provider; otherwise the active provider is the same
\* before and after (no default, "alpha" then "beta": "alpha" stays active).
C12_RegisterKeepsActive ==
    [][\A nm \in Names :
         (call'.op = "registerProvider" /\ call'.arg = nm) =>
            /\ MapHas(providers', nm)
            /\ IF activeProvider = Null \/ nm = config.defaultProvider
               THEN activeProvider' = nm
               ELSE activeProvider' = activeProvider]_vars

\* scenario B: no default, "alpha" registered, then "beta": "alpha" is active
C12_Witness ==
    /\ config.defaultProvider = Null
    /\ call.op = "registerProvider"
    /\ call.arg = "beta"
    /\ call.active = "alpha"
    /\ [i \in DOMAIN providers |-> providers[i].key] = <<"alpha", "beta">>
    /\ activeProvider = "alpha"

\* C13: unregisterProvider of the active provider makes some remaining
\* registered provider active, or none when no provider remains;
\* unregisterProvider of a provider that is not active, or of an unknown name,
\* leaves the active provider unchanged.
C13_UnregisterSwitches ==
    [][\A k \in Names :
         (call'.op = "unregisterProvider" /\ call'.arg = k) =>
            /\ ~MapHas(providers', k)
            /\ IF activeProvider = k
               THEN IF providers' = <<>>
                    THEN activeProvider' = Null
                    ELSE MapHas(providers', activeProvider')
               ELSE activeProvider' = activeProvider]_vars

\* the active provider was removed and a remaining one took its place
C13_Witness ==
    /\ call.op = "unregisterProvider"
    /\ call.active = call.arg
    /\ call.active # Null
    /\ activeProvider # Null
    /\ MapHas(providers, activeProvider)
    /\ activeProvider # call.active

(************************ reading the history ********************************)
RECURSIVE Sum(_)
Sum(seq) == IF seq = <<>> THEN 0 ELSE Head(seq) + Sum(Tail(seq))

\* the index of the last resetUsageStats in the history, 0 if there is none
LastReset ==
    IF \E n \in DOMAIN history : history[n].op = "resetUsageStats"
    THEN CHOOSE n \in DOMAIN history :
           /\ history[n].op = "resetUsageStats"
           /\ \A m \in DOMAIN history : history[m].op = "resetUsageStats" => m <= n
    ELSE 0

\* the updateUsageStats calls since the last reset, and the errors among them
UpdatesSinceReset ==
    {n \in DOMAIN history : n > LastReset /\ history[n].op = "updateUsageStats"}

ErrorsSinceReset == {n \in UpdatesSinceReset : history[n].isError}

\* the updateUsageStats calls made by call number i
UpdatesOf(i) ==
    {n \in DOMAIN history : history[n].op = "updateUsageStats" /\ history[n].call = i}

AllReturned(op) ==
    /\ calls # <<>>
    /\ \A i \in DOMAIN calls :
         calls[i].op = op /\ calls[i].pc = "done" /\ calls[i].outcome = "returned"

\* C14: N successful sendMessage calls on one provider with token counts
\* t1..tN and costs c1..cN, sequential or interleaved at their awaits in any
\* order: once all have settled, totalRequests = N, totalTokens = sum of ti,
\* totalCost = sum of ci and errorRate = 0.
C14_UsageTotals ==
    (AllReturned("sendMessage") /\ LastReset = 0) =>
        /\ usageStats.totalRequests = Len(calls)
        /\ usageStats.totalTokens = Sum([i \in DOMAIN calls |-> calls[i].tokens])
        /\ usageStats.totalCost = Sum([i \in DOMAIN calls |-> calls[i].cost])
        /\ usageStats.errorRate = 0

\* three overlapping calls, all in flight together, settled in the order 3, 1, 2
\* with different token counts
C14_Witness ==
    /\ AllReturned("sendMessage")
    /\ LastReset = 0
    /\ Len(calls) = 3
    /\ [n \in DOMAIN history |-> history[n].call] = <<3, 1, 2>>
    /\ calls[1].tokens = 3 /\ calls[2].tokens = 5 /\ calls[3].tokens = 5
    /\ usageStats.totalCost = 4

\* C15: after N >= 1 usage-stat updates since the last reset, E of them
\* errors, in any order, the stored errorRate is E/N exactly (the quotient
\* E / N as the division gives it) and round(errorRate * totalRequests) is E.
C15_ErrorRate ==
    UpdatesSinceReset # {} =>
        /\ usageStats.totalRequests = Cardinality(UpdatesSinceReset)
        /\ usageStats.errorRate =
             Quotient(Cardinality(ErrorsSinceReset), Cardinality(UpdatesSinceReset))
        /\ MathRound(usageStats.errorRate, usageStats.totalRequests)
             = Cardinality(ErrorsSinceReset)

\* an error between two successes: errorRate 1/3
C15_Witness ==
    /\ Cardinality(UpdatesSinceReset) = 3
    /\ ~history[LastReset + 1].isError
    /\ history[LastReset + 2].isError
    /\ ~history[LastReset + 3].isError
    /\ usageStats.errorRate = Quotient(1, 3)

\* C16: every call of a provider's sendMessage (OpenAI, Anthropic, Ollama)
\* updates the usage stats exactly once before it returns or throws, with
\* isError false on a returned response and true on a thrown error; a failed
\* call adds 0 tokens and 0 cost; totalRequests grows by 1 per call.
C16_OneUpdatePerCall ==
    /\ \A i \in DOMAIN calls :
         calls[i].op = "sendMessage" =>
            IF calls[i].pc = "done"
            THEN /\ Cardinality(UpdatesOf(i)) = 1
                 /\ \A n \in UpdatesOf(i) :
                      /\ history[n].isError = (calls[i].outcome = "thrown")
                      /\ history[n].isError =>
                           history[n].tokens = 0 /\ history[n].cost = 0
            ELSE UpdatesOf(i) = {}
    /\ LastReset = 0 =>
         usageStats.totalRequests =
            Cardinality({i \in DOMAIN calls : calls[i].pc = "done"})

\* a provider with a failed call (non-OK response), a successful one and one
\* still awaited
C16_Witness ==
    /\ backend = "anthropic"
    /\ Len(calls) = 3
    /\ calls[1].outcome = "thrown"
    /\ calls[2].outcome = "returned" /\ calls[2].tokens = 5
    /\ calls[3].pc = "json"
    /\ usageStats.totalRequests = 2
    /\ usageStats.totalTokens = 5

(************************ reading a stream ***********************************)
Streams == {i \in DOMAIN calls : calls[i].op = "sendMessageStream"}

\* deltas[1] \o ... \o deltas[k]
RECURSIVE Concat(_, _)
Concat(deltas, k) == IF k = 0 THEN "" ELSE Concat(deltas, k - 1) \o deltas[k]

\* the well-formed body of backend b for these content deltas: one line per
\* delta, then the completion signal, every line ended by its newline
WellFormed(b, deltas) ==
    Join([k \in 1..Len(deltas) |-> DeltaLine(b, deltas[k])])
      \o (IF deltas = <<>> THEN "" ELSE "\n") \o CompletionLine(b) \o "\n"

DeltaSeqs == UNION {[1..k -> Contents] : k \in 0..(MaxLines - 1)}

\* the chunks P7 asks for
Expected(deltas) ==
    [k \in 1..(Len(deltas) + 1) |->
       IF k <= Len(deltas)
       THEN [content |-> Concat(deltas, k), delta |-> deltas[k], finished |-> FALSE]
       ELSE [content |-> Concat(deltas, Len(deltas)), delta |-> "", finished |-> TRUE]]

IsPrefix(a, b) == Len(a) <= Len(b) /\ a = SubSeq(b, 1, Len(a))

\* C17: every provider sendMessageStream call that runs to its end updates the
\* usage stats exactly once, at completion or at failure and never per chunk,
\* whether the backend ends the stream with its completion signal, closes the
\* body without one, or fails.
C17_OneUpdatePerStream ==
    \A i \in Streams :
        /\ Cardinality(UpdatesOf(i)) <= 1
        /\ calls[i].pc = "done" => Cardinality(UpdatesOf(i)) = 1

\* C18: for a well-formed stream of K content deltas followed by the
\* completion signal, the chunks emitted are the K non-final chunks (delta i,
\* content = deltas 1..i joined) in order, then one final chunk with
\* finished = true, an empty delta and the full content, and nothing after it.
C18_StreamChunks ==
    \A i \in Streams : \A deltas \in DeltaSeqs :
        calls[i].response = WellFormed(backend, deltas) =>
            /\ IsPrefix(calls[i].out, Expected(deltas))
            /\ (calls[i].pc = "done" /\ calls[i].outcome = "returned")
                 => calls[i].out = Expected(deltas)

\* the stream of "Hi", "!" and the completion signal, consumed to its end
C18_Witness ==
    \E i \in Streams :
        /\ calls[i].response = WellFormed(backend, <<"Hi", "!">>)
        /\ calls[i].pc = "done"
        /\ calls[i].outcome = "returned"
        /\ Len(calls[i].out) = 3
        /\ calls[i].out[2].content = "Hi!"

\* C19: every stream that ends without raising an error ends with a chunk
\* with finished = true and an empty delta, the only chunk with
\* finished = true, also when the backend closes the body without its
\* sentinel or the completion line comes without a trailing newline.
C19_StreamEndsFinished ==
    \A i \in Streams :
        (calls[i].pc = "done" /\ calls[i].outcome = "returned") =>
            /\ calls[i].out # <<>>
            /\ calls[i].out[Len(calls[i].out)].finished
            /\ calls[i].out[Len(calls[i].out)].delta = ""
            /\ \A k \in DOMAIN calls[i].out :
                 calls[i].out[k].finished => k = Len(calls[i].out)

\* the chunks the lines of a body stand for, read as a whole: a chunk for
\* each content delta up to the completion signal, which gives the final
\* chunk; any other line gives nothing
RECURSIVE ChunksOfLines(_, _, _)
ChunksOfLines(b, lines, total) ==
    IF lines = <<>> THEN <<>>
    ELSE IF Head(lines) = CompletionLine(b)
    THEN <<[content |-> total, delta |-> "", finished |-> TRUE]>>
    ELSE IF \E x \in Contents : Head(lines) = DeltaLine(b, x)
    THEN LET x == CHOOSE x \in Contents : Head(lines) = DeltaLine(b, x)
         IN <<[content |-> total \o x, delta |-> x, finished |-> FALSE]>>
              \o ChunksOfLines(b, Tail(lines), total \o x)
    ELSE ChunksOfLines(b, Tail(lines), total)

\* the body ends with a newline
NewlineTerminated(body) ==
    body # "" /\ SubSeq(body, Len(body), Len(body)) = "\n"

\* C25: the chunks a sendMessageStream call produces depend only on the
\* characters of the response body, not on how they are cut into reads: for
\* every cutting of a newline-terminated body, also in the middle of a line
\* or a JSON object, the chunks are those of the body's lines read as a
\* whole; a malformed line is skipped, without ending the stream or changing
\* the chunks of the other lines.
C25_ReadSplitIndependence ==
    \A i \in Streams :
        NewlineTerminated(calls[i].response) =>
            LET whole == ChunksOfLines(backend, Split(calls[i].response), "")
            IN /\ IsPrefix(calls[i].out, whole)
               /\ calls[i].outcome # "thrown"
               /\ (calls[i].pc = "done" /\ calls[i].outcome = "returned")
                    => calls[i].out = whole

\* "Hi", a malformed line, "!" and the completion signal: the malformed
\* line was skipped and both deltas came out, and the last read ended inside
\* the completion line, which waits in the buffer
C25_Witness ==
    \E i \in Streams :
        /\ calls[i].response =
              Join(<<DeltaLine(backend, "Hi"), MalformedLine(backend),
                     DeltaLine(backend, "!"), CompletionLine(backend)>>) \o "\n"
        /\ calls[i].pc = "read"
        /\ calls[i].buffer # ""
        /\ calls[i].buffer \o calls[i].body = CompletionLine(backend) \o "\n"
        /\ Len(calls[i].out) = 2
        /\ calls[i].out[2].content = "Hi!"

(************************ reading the status cache ***************************)
\* the backend probes made by call number i
ProbesOf(i) ==
    {n \in DOMAIN history : history[n].op = "checkAvailability" /\ history[n].call = i}

\* C20: a getStatus call made less than 5 minutes after the cached status
\* was recorded (no updateConfig since) returns that status unchanged and
\* makes no backend probe, whether the status is available or unavailable; a
\* call made after the 5-minute window makes a fresh probe, whose result is
\* cached when it settles.
C20_StatusCache ==
    [][/\ (Len(calls') = Len(calls) + 1 /\ calls'[Len(calls')].op = "getStatus") =>
            LET g == calls'[Len(calls')] IN
            /\ (lastStatus.set /\ now - lastStatus.lastChecked < 5) =>
                  /\ g.pc = "done"
                  /\ g.status = lastStatus
                  /\ history' = history
                  /\ lastStatus' = lastStatus
            /\ (lastStatus.set /\ now - lastStatus.lastChecked > 5) =>
                  /\ g.pc = "probe"
                  /\ Len(history') = Len(history) + 1
                  /\ history'[Len(history')].op = "checkAvailability"
                  /\ history'[Len(history')].call = Len(calls')
       /\ \A i \in DOMAIN calls :
            (calls[i].pc = "probe" /\ calls'[i].pc = "done") =>
                /\ lastStatus'.set
                /\ lastStatus'.lastChecked = now
                /\ lastStatus' = calls'[i].status]_vars

\* call 1 probed and cached "unavailable"; call 2, 4 minutes after that status
\* was recorded, got the cached status without a probe
C20_Witness ==
    /\ Len(calls) = 2
    /\ \A i \in 1..2 : calls[i].op = "getStatus" /\ calls[i].pc = "done"
    /\ ProbesOf(1) # {}
    /\ ~calls[1].status.available
    /\ calls[2].startTime = calls[1].status.lastChecked + 4
    /\ calls[2].status = calls[1].status
    /\ ProbesOf(2) = {}
    /\ lastStatus = calls[1].status

\* the first call issued under an updated configuration: the next getStatus
\* after the updateConfig that changed it
FirstAfterUpdate(g) ==
    /\ calls[g].op = "getStatus"
    /\ calls[g].config # ConstructedConfig
    /\ \A j \in 1..(g - 1) : calls[j].config = ConstructedConfig

\* C21: after updateConfig returns, the next getStatus call makes a new
\* backend probe against the updated configuration and never returns a status
\* obtained under the previous configuration, also when a probe started
\* before the updateConfig settles after it.  (A call that makes no probe
\* returns the cached status, which only an earlier call's probe can have
\* written.)
C21_UpdateConfigForcesProbe ==
    \A g \in DOMAIN calls : FirstAfterUpdate(g) => ProbesOf(g) # {}

\* the probe of call number i was rejected
ProbeFailed(i) ==
    \E n \in DOMAIN history :
        /\ history[n].op = "probeSettled"
        /\ history[n].call = i
        /\ history[n].isError

\* C28: isAvailable never throws: it returns the available flag of the status
\* getStatus gives it, and false when the backend probe failed; getStatus
\* never rejects either, and records a failed probe as a status with
\* available = false and the error message.
C28_NeverThrows ==
    \A i \in DOMAIN calls :
        (calls[i].op \in {"getStatus", "isAvailable"} /\ calls[i].pc = "done") =>
            /\ calls[i].outcome = "returned"
            /\ calls[i].status.set
            /\ ProbeFailed(i) =>
                  /\ ~calls[i].status.available
                  /\ calls[i].status.error = "probe failed"
            /\ calls[i].op = "isAvailable" =>
                  /\ calls[i].ret = (IF calls[i].status.available THEN "true" ELSE "false")
                  /\ ProbeFailed(i) => calls[i].ret = "false"

\* an isAvailable call whose probe was rejected returned false, and a
\* getStatus call made right after it got the unavailable status
C28_Witness ==
    /\ Len(calls) = 2
    /\ calls[1].op = "isAvailable" /\ calls[1].pc = "done"
    /\ ProbeFailed(1)
    /\ calls[1].ret = "false"
    /\ calls[2].op = "getStatus" /\ calls[2].pc = "done"
    /\ ~calls[2].status.available
    /\ calls[2].outcome = "returned"

(************************ reading the bulk status query **********************)
\* the keys registered, in Map order
RegisteredKeys == [i \in DOMAIN providers |-> providers[i].key]

\* the entry the caller is owed for a provider whose getStatus settled as o
OwedEntry(entry, o) ==
    IF o.rejected
    THEN ~entry.available /\ entry.error = o.message
    ELSE /\ entry = o.status
         /\ ~o.status.available => ~entry.available

\* what a returned getProviderStatuses call must have produced
StatusesComplete ==
    /\ statusesCall.outcome = "returned"
    /\ DOMAIN statusesCall.statuses =
          {statusesCall.entries[i] : i \in DOMAIN statusesCall.entries}
    /\ \A nm \in DOMAIN statusesCall.statuses :
          OwedEntry(statusesCall.statuses[nm], statusesCall.outcomes[nm])

\* C22: getProviderStatuses calls getStatus on every registered provider
\* before any of them settles and returns exactly one entry per provider
\* registered when it was called; a provider whose getStatus reports a failure
\* or rejects gets an entry with available = false and the error message, and
\* every entry is decided by its own provider's outcome alone, in whatever
\* order the probes settle and whatever is registered meanwhile.
C22_ProviderStatuses ==
    [][/\ (statusesCall.pc # "pending" /\ statusesCall'.pc = "pending") =>
            /\ statusesCall'.entries = RegisteredKeys
            /\ statusesCall'.pending = {RegisteredKeys[i] : i \in DOMAIN RegisteredKeys}
       /\ (statusesCall.pc = "pending" /\ statusesCall'.pc = "pending") =>
            statusesCall'.entries = statusesCall.entries
       /\ (statusesCall.pc = "pending" /\ statusesCall'.pc = "done") =>
            /\ statusesCall'.entries = statusesCall.entries
            /\ StatusesComplete']_vars

\* a query over alpha and beta returned: beta's getStatus rejected, alpha
\* was available, and alpha was unregistered while the query ran
C22_Witness ==
    /\ statusesCall.pc = "done"
    /\ statusesCall.entries = <<"alpha", "beta">>
    /\ statusesCall.outcomes["beta"].rejected
    /\ ~statusesCall.statuses["beta"].available
    /\ statusesCall.statuses["alpha"].available
    /\ RegisteredKeys = <<"beta">>

(************************ reading the errors thrown **************************)
\* call number i was refused by the backend with this HTTP status and has
\* thrown
Refused(i, status) ==
    /\ calls[i].op \in {"sendMessage", "sendMessageStream"}
    /\ calls[i].outcome = "thrown"
    /\ calls[i].httpStatus = status

\* C23: a sendMessage or sendMessageStream call the backend answers with
\* HTTP 401 throws an Authentication error (code AUTH_ERROR); one answered
\* with HTTP 429 throws a RateLimit error carrying the retry-after header in
\* seconds when there is one; the classes the Manager's auth short-circuit
\* and rate-limit wait test for.  Every other failure throws a Network error
\* or a generic provider error.
C23_BackendStatusClassified ==
    \A i \in DOMAIN calls :
        /\ Refused(i, 401) =>
              /\ calls[i].error.class = "LLMAuthenticationError"
              /\ calls[i].error.code = "AUTH_ERROR"
        /\ Refused(i, 429) =>
              /\ calls[i].error.class = "LLMRateLimitError"
              /\ calls[i].retryAfter = "2" => calls[i].error.retryAfter = 2
        /\ (calls[i].outcome = "thrown" /\ calls[i].httpStatus \notin {401, 429}) =>
              calls[i].error.class \in {"LLMNetworkError", "LLMError"}

(************************ reading a cost estimate ****************************)
\* the characters of all message contents together
RECURSIVE TotalCharacters(_)
TotalCharacters(contents) ==
    IF contents = <<>> THEN 0 ELSE Len(Head(contents)) + TotalCharacters(Tail(contents))

\* the model a request is for, in a catalog that is not empty
TargetModel(models, request) ==
    IF request.model # Null THEN request.model ELSE models[1].id

\* C24: estimateCost returns (inTok/1000)*price_in + (outTok/1000)*price_out
\* for the target model, inTok the total character count of the message
\* contents divided by 4 (rounded up) and outTok request.maxTokens or, if
\* unspecified, 10% of the model's maxTokens; it returns 0 when the target
\* model has no pricing or is not in the catalog.  For messages totalling 400
\* characters, model maxTokens 100 and prices 0.01/0.02 the result is 0.0012,
\* however the characters are divided among the messages.
C24_EstimateCost ==
    [][(call'.op = "estimateCost" /\ call' # call
        /\ getProviderForRequest(call'.arg.providerName) # Null
        /\ providerConfig.models # <<>>) =>
          LET request == call'.arg.request
              models == providerConfig.models
              known == {i \in DOMAIN models : models[i].id = TargetModel(models, request)}
              inTok == (TotalCharacters(request.messages) + 3) \div 4
          IN /\ ~call'.ret.threw
             /\ \A i \in known :
                   IF models[i].costPer1kTokens.defined
                   THEN call'.ret.value =
                          10 * inTok * models[i].costPer1kTokens.input
                          + (IF request.maxTokens # 0 THEN 10 * request.maxTokens
                             ELSE models[i].maxTokens) * models[i].costPer1kTokens.output
                   ELSE call'.ret.value = 0
             /\ known = {} => call'.ret.value = 0
             /\ (/\ models = PricedCatalog
                 /\ TargetModel(models, request) = "m1"
                 /\ request.maxTokens = 0
                 /\ TotalCharacters(request.messages) = 400) =>
                    call'.ret.value = 1200000]_vars

(************************ reading a payload **********************************)
\* the system text of a request, built message by message: the explicit
\* prompt, then each system-role content, a blank line before each one that
\* is not the first; an empty text is no content
RECURSIVE SystemText(_, _)
SystemText(text, messages) ==
    IF messages = <<>> THEN text
    ELSE LET m == Head(messages) IN
         IF m.role = "system" /\ m.content # ""
         THEN SystemText(IF text = "" THEN m.content ELSE text \o "\n\n" \o m.content,
                         Tail(messages))
         ELSE SystemText(text, Tail(messages))

\* the messages that are not system-role, in their order
RECURSIVE Conversation(_)
Conversation(messages) ==
    IF messages = <<>> THEN <<>>
    ELSE (IF Head(messages).role = "system" THEN <<>>
          ELSE <<[role |-> Head(messages).role, content |-> Head(messages).content]>>)
         \o Conversation(Tail(messages))

\* C26: the Anthropic payload puts all system content in one top-level
\* system field: the explicit systemPrompt (if any) followed by the contents
\* of the system-role messages in their original order, joined by a blank
\* line (an empty text counting as no content); its message array holds no
\* system-role message and keeps the other messages in their order; the
\* system field is omitted when there is no system content.
C26_AnthropicSystemField ==
    call.op = "buildRequestPayload" =>
        LET request == call.arg
            payload == call.ret
            text == SystemText(IF request.systemPrompt = Null THEN ""
                               ELSE request.systemPrompt, request.messages)
        IN /\ payload.hasSystem <=> text # ""
           /\ payload.hasSystem => payload.system = text
           /\ \A k \in DOMAIN payload.messages : payload.messages[k].role # "system"
           /\ payload.messages = Conversation(request.messages)

\* a prompt and two system messages around a user message: one system field
\* of three parts, one message left
C26_Witness ==
    /\ call.op = "buildRequestPayload"
    /\ call.arg.systemPrompt = "P"
    /\ call.arg.messages =
          <<LLMMessage("system", "a"), LLMMessage("user", "b"), LLMMessage("system", "b")>>
    /\ call.ret.system = "P\n\na\n\nb"
    /\ call.ret.messages = <<[role |-> "user", content |-> "b"]>>

(************************ reading a model refresh ****************************)
\* call i refreshes the installed models in this step
Refreshes(i) ==
    /\ i \in DOMAIN calls
    /\ calls[i].pc = "probe"
    /\ calls'[i].pc = "done"
    /\ \E n \in (Len(history) + 1)..Len(history') :
          history'[n].op = "updateAvailableModels" /\ history'[n].call = i

\* C27: when the Ollama provider refreshes its installed models, its catalog
\* becomes exactly the installed models in backend order, an installed id
\* that was in the catalog keeps its previous descriptor, and the rest of the
\* configuration and the usage statistics are unchanged; also when the
\* installed list is empty.
C27_ModelRefresh ==
    [][\A i \in DOMAIN calls : Refreshes(i) =>
          LET installed == calls'[i].response
              old == providerConfig.models
              new == providerConfig'.models
          IN /\ Len(new) = Len(installed)
             /\ \A k \in DOMAIN installed :
                   /\ new[k].id = installed[k]
                   /\ (\E j \in DOMAIN old : old[j].id = installed[k]) =>
                         (\E j \in DOMAIN old : old[j] = new[k])
             /\ \A f \in DOMAIN providerConfig \ {"models"} :
                   providerConfig'[f] = providerConfig[f]
             /\ usageStats' = usageStats]_vars

\* after a failed sendMessage, a refresh listing phi and llama2: llama2 kept
\* its descriptor, phi got the default one, codellama left the catalog
C27_Witness ==
    /\ usageStats.totalRequests = 1
    /\ \E i \in DOMAIN calls :
          /\ calls[i].op = "getStatus" /\ calls[i].pc = "done"
          /\ \E n \in DOMAIN history :
                history[n].op = "updateAvailableModels" /\ history[n].call = i
    /\ Len(providerConfig.models) = 2
    /\ providerConfig.models[1].id = "phi"
    /\ providerConfig.models[1].maxTokens = 2048
    /\ providerConfig.models[2] = DEFAULT_MODELS("ollama")[1]

(************************ reading the work of a request ************************)
\* the sendMessage calls made on the fallback provider listed at position j
SendsTo(j) == {i \in FallbackSends : trace[i].target = FallbackNames[j]}

\* the primary answered every call with a hinted RateLimit error
AlwaysRateLimited ==
    /\ PrimaryCalls # {}
    /\ \A i \in PrimaryCalls : IsHintedRateLimit(trace[i].outcome)

CallsBounded ==
    /\ Cardinality(PrimaryCalls) <= RetryAttempts
    /\ \A j \in DOMAIN FallbackNames : Cardinality(SendsTo(j)) <= 1

InSendMessage == req.kind = "sendMessage" /\ req.pc # "done"

\* C29: Manager.sendMessage ends whenever each provider call and each sleep
\* returns, and on the way it makes at most retryAttempts calls to the primary
\* provider and at most one sendMessage call per configured fallback name,
\* a primary that answers every call with a hinted RateLimit error included.
C29_SendMessageTerminates ==
    /\ [](req.kind = "sendMessage" => CallsBounded)
    /\ (InSendMessage ~> req.pc = "done")

C29_Witness ==
    /\ req.kind = "sendMessage"
    /\ req.pc = "done"
    /\ AlwaysRateLimited
    /\ Cardinality(PrimaryCalls) = RetryAttempts
    /\ FallbackSends # {}
    /\ result.status = "error"

(************************ reading a request's effect on the registry ***********)
\* a step of a request: its call, one of its continuations, its outcome taken
RequestStep == req' # req \/ trace' # trace

\* a request without a provider name is called while a provider is active
UnnamedRequestStarts ==
    /\ req.pc = "idle"
    /\ req'.pc # "idle"
    /\ req'.providerName = Null
    /\ getActiveProvider # Null

\* C30: no step of sendMessage or sendMessageStream changes the registry or
\* the active-provider pointer; when a request has its outcome, served by a
\* fallback or failed everywhere included, the active provider is the one of
\* the moment it was called, and a request without a provider name goes first
\* to the active provider.
C30_RequestsLeaveRegistry ==
    [][/\ RequestStep => (providers' = providers /\ activeProvider' = activeProvider)
       /\ req'.pc = "done" => activeProvider' = call'.active
       /\ UnnamedRequestStarts =>
              /\ trace' # <<>>
              /\ trace'[1].op = req'.kind
              /\ trace'[1].role = "primary"
              /\ trace'[1].target = activeProvider]_vars

C30_Witness ==
    /\ ServedByFallback
    /\ req.providerName = Null
    /\ activeProvider = call.active
    /\ trace[1].target = activeProvider
    /\ trace[Len(trace)].target # activeProvider
====
